---- MODULE Spec2Model ----
(***************************************************************************)
(* State-machine model of the page-rendering and view-synchronisation      *)
(* pipeline of src/pdf.py (QuantumPDF): PDFViewer sessions, their render   *)
(* job (PageRenderThread) and thumbnail stream (ThumbnailLoaderThread),    *)
(* the debounce timers, the control thread's event queue, the text search  *)
(* with its highlights, and the tab registry of MainWindow.                *)
(*                                                                         *)
(* The control (GUI) thread runs one handler at a time.  A handler that    *)
(* blocks in QThread.wait() is split at the wait: ctl records where the    *)
(* control thread is blocked, and only worker steps are enabled until the  *)
(* awaited worker has finished.  Signals emitted by a worker are posted to *)
(* the control thread's FIFO event queue (queue) and applied later.        *)
(***************************************************************************)
EXTENDS Integers, Sequences, FiniteSets, TLC

\* ------------------------------------------------------------------ bounds
\* Number of PDFViewer objects created over a run.
MaxSessions == 2
\* Number of user events handled over a run of Spec.
MaxEvents == 3
\* Number of user events handled over a run of SpecSession.
MaxSessionEvents == 2
\* Number of user events handled over a run of SpecView.
MaxViewEvents == 3
\* Number of user events handled over a run of SpecRotate.
MaxRotateEvents == 4
\* Number of user events handled over a run of SpecSearch.
MaxSearchEvents == 3
\* Number of user events handled over a run of SpecFault.
MaxFaultEvents == 2
\* Number of user events handled over a run of SpecSelect.
MaxSelectEvents == 3
\* Number of user events handled over a run of SpecBrowse.
MaxBrowseEvents == 3
\* Number of user events handled over a run of SpecSteady.
MaxSteadyEvents == 2

Sessions == 1..MaxSessions

\* ------------------------------------------------------- exact rationals
\* Python floats are modelled as exact rationals <<n, d>> with d > 0, reduced.
RECURSIVE GCD(_, _)
GCD(a, b) == IF b = 0 THEN a ELSE GCD(b, a % b)

Abs(x) == IF x < 0 THEN -x ELSE x

Rat(n, d) ==
    LET g == GCD(Abs(n), Abs(d))
        sg == IF d < 0 THEN -1 ELSE 1
    IN  IF n = 0 THEN <<0, 1>> ELSE <<sg * (n \div g), sg * (d \div g)>>

RMul(a, b) == Rat(a[1] * b[1], a[2] * b[2])
RDiv(a, b) == Rat(a[1] * b[2], a[2] * b[1])
RLe(a, b) == a[1] * b[2] <= b[1] * a[2]
RMin(a, b) == IF RLe(a, b) THEN a ELSE b
RMax(a, b) == IF RLe(a, b) THEN b ELSE a
\* |a - b| > e, computed over the least common denominator of a and b.
RFarther(a, b, e) ==
    LET g == GCD(a[2], b[2])
        diff == Abs(a[1] * (b[2] \div g) - b[1] * (a[2] \div g))
    IN  diff * e[2] > e[1] * ((a[2] \div g) * b[2])

\* ------------------------------------------------------- document engine
\* A path is a sequence of path components, as the string the user gave.
PathA == <<"a.pdf">>
PathB == <<"b.pdf">>
PathBDot == <<".", "b.pdf">>
PathBad == <<"bad.pdf">>
PathC == <<"c.pdf">>

\* fitz.open raises for a missing or corrupt file.
OpenFails(path) == path = PathBad

\* len(doc) of the document at path.
PageCount(path) ==
    IF path \in {PathB, PathBDot} THEN 1 ELSE IF path = PathC THEN 3 ELSE 2

\* page.rect of page i (0-based) as <<width, height>> in document units.
PageRect(path, i) == IF i = 0 THEN <<200, 300>> ELSE <<400, 300>>

\* page.rect.transform(Matrix(1,1).prerotate(rotation)): the bounding box of
\* the rotated page.
RotatedRect(rect, rot) ==
    IF rot \in {90, 270} THEN <<rect[2], rect[1]>> ELSE rect

\* The texts the user types into the search input.
Queries == {"", "test", "a", "zzz"}

\* page.search_for(text) on page i: the rectangles <<x0, y0, x1, y1>> of the
\* matches, in the order the engine returns them.
SearchFor(path, i, text) ==
    IF text = "test" /\ path = PathC /\ i = 0 THEN << <<0, 100, 100, 200>> >>
    ELSE IF text = "test" /\ path = PathC /\ i = 2 THEN << <<100, 100, 300, 200>> >>
    ELSE IF text = "test" /\ path = PathA /\ i = 1 THEN << <<100, 0, 200, 100>> >>
    ELSE IF text = "a" /\ i = 1 THEN << <<200, 100, 300, 200>>, <<0, 0, 100, 100>> >>
    ELSE <<>>

\* -x for a rational x
RNeg(a) == <<-a[1], a[2]>>

\* rect * scale (fitz.Rect.__mul__ with a number): every coordinate scaled
RectTimes(rect, scale) == [k \in 1..4 |-> RMul(Rat(rect[k], 1), scale)]

\* rect.transform(fitz.Matrix(1, 1).prerotate(angle)): the bounding box of
\* the rectangle turned about the origin; prerotate brings the angle into
\* [0, 360) and (x, y) goes to (-y, x) for 90, (-x, -y) for 180 and (y, -x)
\* for 270.
RectTransform(q, angle) ==
    LET a == angle % 360 IN
    IF a = 90 THEN <<RNeg(q[4]), q[1], RNeg(q[2]), q[3]>>
    ELSE IF a = 180 THEN <<RNeg(q[3]), RNeg(q[4]), RNeg(q[1]), RNeg(q[2])>>
    ELSE IF a = 270 THEN <<q[2], RNeg(q[3]), q[4], RNeg(q[1])>>
    ELSE q

\* Size of a viewer's viewport when it is laid out in the tab widget.
DefaultViewSize == <<400, 600>>
ViewSizes == {<<400, 600>>, <<600, 600>>, <<0, 0>>}

\* ------------------------------------------------------------------- state
VARIABLES
    viewers,                \* number of PDFViewer objects created so far
    tabs,                   \* tab_widget: sequence of viewers, in tab order
    current,                \* tab_widget.currentWidget(), 0 when there is none
    file_path,              \* PDFViewer.file_path
    doc,                    \* PDFViewer.doc: "none", "open" or "closed"
    current_page_index,
    rotation,
    base_scale,
    current_zoom_factor,
    current_render_scale,
    view_size,              \* view.viewport().size()
    pixmap,                 \* the bitmap shown by view.set_page_pixmap
    page_render_thread,     \* the session's PageRenderThread
    thumbnail_loader,       \* the session's ThumbnailLoaderThread
    raw_thumbnail_pixmaps,
    render_timer,           \* _render_timer is active
    fit_timer,              \* QTimer.singleShot(50, viewer.fit_to_page) pending
    queue,                  \* signals posted to the control thread
    ctl,                    \* where the control thread is
    jobs,                   \* render jobs started per viewer (job ids)
    streams,                \* thumbnail streams started per viewer
    cancelled,              \* history: <<viewer, job>> with interruption requested
    applied,                \* history: per viewer, the jobs applied by _on_page_ready
    orphans,                \* threads replaced while they were still running
    closed_done,            \* history: viewers whose close() has returned
    search_results,         \* PDFViewer.search_results: (page, rect) pairs
    current_search_index,
    highlights,             \* the highlight items in the viewer's scene
    search_input,           \* MainWindow.search_input.text()
    search_timer,           \* MainWindow.search_timer is active
    search_results_label,   \* <<current, total>> shown, <<0, 0>> when empty
    selected_rect,          \* history: pdf_rect of the last text selection
    turns,                  \* history: sum of the angles given to rotate
    load_fails,             \* the engine raises on _render_page's next load_page
    faults,                 \* history: engine failures of render requests
    last,                   \* history: the handler or step taken last
    budget                  \* user events still to come

loads == <<load_fails, faults>>

vars == <<viewers, tabs, current, file_path, doc, current_page_index, rotation,
          base_scale, current_zoom_factor, current_render_scale, view_size,
          pixmap, page_render_thread, thumbnail_loader, raw_thumbnail_pixmaps,
          render_timer, fit_timer, queue, ctl, jobs, loads, streams, cancelled,
          applied, orphans, closed_done, search_results,
          current_search_index, highlights, search_input, search_timer,
          search_results_label, selected_rect, turns, last, budget>>

viewState == <<current_page_index, rotation, base_scale, current_zoom_factor,
               current_render_scale, view_size, pixmap>>
history == <<cancelled, applied, closed_done>>
searchState == <<search_results, current_search_index>>
chrome == <<search_input, search_timer, search_results_label>>
searchVars == <<searchState, highlights, chrome, selected_rect>>

NoThread == [st |-> "none", job |-> 0, page |-> 0, rotation |-> 0,
             scale |-> <<0, 1>>, intr |-> FALSE]
NoLoader == [st |-> "none", gen |-> 0, rotation |-> 0, i |-> 0, intr |-> FALSE]
NoPixmap == [job |-> 0, page |-> 0, rotation |-> 0, scale |-> <<0, 1>>]
Idle == [pc |-> "idle", s |-> 0]
\* last: the handler (op) taken last, the viewer and job it was for, the
\* path it was given and its integer argument (angle, wheel direction, item).
EventWith(op, s, arg) ==
    [op |-> op, s |-> s, job |-> 0, path |-> <<>>, arg |-> arg]
Event(op, s, job) == [op |-> op, s |-> s, job |-> job, path |-> <<>>, arg |-> 0]
NoEvent == Event("init", 0, 0)

\* QThread.isRunning()
RenderRunning(t) == t.st \in {"run", "emit", "ret"}
LoaderRunning(t) == t.st \in {"loop", "page"}

page_count(s) == IF doc[s] = "none" THEN 0 ELSE PageCount(file_path[s])

NoRect == <<>>
NoLabel == <<0, 0>>

\* The search fields of PDFViewer.__init__ and the search widgets of
\* MainWindow as they are constructed.
SearchIdle ==
    /\ search_results = [s \in Sessions |-> <<>>]
    /\ current_search_index = [s \in Sessions |-> -1]
    /\ highlights = [s \in Sessions |-> <<>>]
    /\ search_input = ""
    /\ search_timer = FALSE
    /\ search_results_label = NoLabel
    /\ selected_rect = NoRect

\* The document engine has not failed.
NoFaults == load_fails = FALSE /\ faults = {}

Init ==
    /\ viewers = 0
    /\ tabs = <<>>
    /\ current = 0
    /\ file_path = [s \in Sessions |-> <<>>]
    /\ doc = [s \in Sessions |-> "none"]
    /\ current_page_index = [s \in Sessions |-> 0]
    /\ rotation = [s \in Sessions |-> 0]
    /\ base_scale = [s \in Sessions |-> <<1, 1>>]
    /\ current_zoom_factor = [s \in Sessions |-> <<1, 1>>]
    /\ current_render_scale = [s \in Sessions |-> <<1, 1>>]
    /\ view_size = [s \in Sessions |-> DefaultViewSize]
    /\ pixmap = [s \in Sessions |-> NoPixmap]
    /\ page_render_thread = [s \in Sessions |-> NoThread]
    /\ thumbnail_loader = [s \in Sessions |-> NoLoader]
    /\ raw_thumbnail_pixmaps = [s \in Sessions |-> <<>>]
    /\ render_timer = [s \in Sessions |-> FALSE]
    /\ fit_timer = [s \in Sessions |-> FALSE]
    /\ queue = <<>>
    /\ ctl = Idle
    /\ jobs = [s \in Sessions |-> 0]
    /\ NoFaults
    /\ streams = [s \in Sessions |-> 0]
    /\ cancelled = {}
    /\ applied = [s \in Sessions |-> <<>>]
    /\ orphans = {}
    /\ closed_done = {}
    /\ SearchIdle
    /\ turns = [s \in Sessions |-> 0]
    /\ last = NoEvent
    /\ budget = MaxEvents

\* ------------------------------------------------------ handler fragments
\* A fragment constrains the primed variables it names; the action using it
\* leaves the others unchanged.  Fragments read the primed view state, which
\* the calling handler has assigned before.

\* Mutant of FinalScale: the zoom factor is left out of the render scale.
FinalScale_BaseOnly(base, zoom) == base

\* _render_page: final_scale = self.base_scale * self.current_zoom_factor
FinalScale(base, zoom) == RMul(base, zoom)

\* A failure of the engine in a render request of viewer s: load_page raised
\* in _render_page (job 0: no job was created) or get_pixmap raised in the
\* job's run.
Fault(kind, s, job) == [kind |-> kind, s |-> s, job |-> job]

\* _render_page from page = self.doc.load_page(self.current_page_index) on:
\* load_page raises out of the handler, or
\* PageRenderThread(page, self.rotation, final_scale).start()
StartJob(s) ==
    IF load_fails
    THEN /\ load_fails' = FALSE
         /\ faults' = faults \cup {Fault("load", s, 0)}
         /\ UNCHANGED <<page_render_thread, jobs, orphans>>
    ELSE /\ page_render_thread' = [page_render_thread EXCEPT ![s] =
                [st |-> "run", job |-> jobs[s] + 1,
                 page |-> current_page_index'[s], rotation |-> rotation'[s],
                 scale |-> FinalScale(base_scale'[s], current_zoom_factor'[s]),
                 intr |-> FALSE]]
         /\ jobs' = [jobs EXCEPT ![s] = @ + 1]
         /\ orphans' = orphans \cup
                IF RenderRunning(page_render_thread[s])
                THEN {[kind |-> "render", s |-> s,
                       id |-> page_render_thread[s].job]}
                ELSE {}
         /\ UNCHANGED loads

\* Mutant of MustJoinRender: _render_page never joins the previous job.
MustJoinRender_Never(s) == FALSE

\* The guard of _render_page before a new job is launched: a previous job
\* that is still running is interrupted and joined first.
MustJoinRender(s) == RenderRunning(page_render_thread[s])

\* PDFViewer._render_page; a closed document makes it raise before any job
\* is created.
RenderPage(s) ==
    IF doc[s] # "open"
    THEN UNCHANGED <<page_render_thread, jobs, loads, ctl, cancelled, orphans>>
    ELSE IF MustJoinRender(s)
    THEN /\ page_render_thread' = [page_render_thread EXCEPT ![s].intr = TRUE]
         /\ cancelled' = cancelled \cup {<<s, page_render_thread[s].job>>}
         /\ ctl' = [pc |-> "render_wait", s |-> s]
         /\ UNCHANGED <<jobs, loads, orphans>>
    ELSE /\ StartJob(s)
         /\ UNCHANGED <<ctl, cancelled>>

\* Mutant of TimerAfterRequest: an immediate request leaves the timer alone.
TimerAfterRequest_NoStop(immediate, pending) ==
    IF immediate THEN pending ELSE TRUE

\* _request_render(immediate): whether _render_timer is active afterwards;
\* immediate stops it, otherwise start() arms it or arms it again.
TimerAfterRequest(immediate, pending) == IF immediate THEN FALSE ELSE TRUE

\* PDFViewer._recalculate_base_scale_and_render
RecalcBase(s) ==
    IF doc[s] # "open"
    THEN UNCHANGED <<base_scale, render_timer>>
    ELSE LET pr == RotatedRect(PageRect(file_path[s], current_page_index'[s]),
                               rotation'[s])
         IN  IF pr[1] = 0 \/ pr[2] = 0
             THEN UNCHANGED <<base_scale, render_timer>>
             ELSE /\ base_scale' = [base_scale EXCEPT ![s] =
                        RMin(Rat(view_size'[s][1], pr[1]),
                             Rat(view_size'[s][2], pr[2]))]
                  /\ render_timer' = [render_timer EXCEPT ![s] =
                         TimerAfterRequest(FALSE, @)]

\* PDFViewer.fit_to_page
FitToPage(s) ==
    /\ current_zoom_factor' = [current_zoom_factor EXCEPT ![s] = <<1, 1>>]
    /\ RecalcBase(s)

NoEntry == [gen |-> 0, rotation |-> 0]

\* ThumbnailLoaderThread(viewer.doc, viewer.rotation).start()
StartStream(s) ==
    /\ thumbnail_loader' = [thumbnail_loader EXCEPT ![s] =
           [st |-> "loop", gen |-> streams[s] + 1, rotation |-> rotation'[s],
            i |-> 0, intr |-> FALSE]]
    /\ streams' = [streams EXCEPT ![s] = @ + 1]
    /\ orphans' = orphans \cup
           IF LoaderRunning(thumbnail_loader[s])
           THEN {[kind |-> "loader", s |-> s, id |-> thumbnail_loader[s].gen]}
           ELSE {}

\* Mutant of MustJoinLoader: _refresh_thumbnails never joins the stream.
MustJoinLoader_Never(s) == FALSE

\* The guard of _refresh_thumbnails before a new stream is launched.
MustJoinLoader(s) == LoaderRunning(thumbnail_loader[s])

\* Mutant of EmptyEntries: the reset leaves an empty list.
EmptyEntries_None(n) == <<>>

\* [None] * viewer.page_count()
EmptyEntries(n) == [i \in 1..n |-> NoEntry]

\* MainWindow._refresh_thumbnails for viewer s (the current viewer)
RefreshThumbnails(s) ==
    /\ raw_thumbnail_pixmaps' = [raw_thumbnail_pixmaps EXCEPT ![s] =
           EmptyEntries(IF doc'[s] = "none" THEN 0
                        ELSE PageCount(file_path'[s]))]
    /\ IF MustJoinLoader(s)
       THEN /\ thumbnail_loader' = [thumbnail_loader EXCEPT ![s].intr = TRUE]
            /\ ctl' = [pc |-> "thumb_wait", s |-> s]
            /\ UNCHANGED <<streams, orphans>>
       ELSE /\ StartStream(s)
            /\ UNCHANGED ctl

\* The control thread is in its event loop and the user may act.
Ready == ctl.pc = "idle"
UserEvent == Ready /\ budget > 0 /\ budget' = budget - 1

\* ------------------------------------------------------------ tab registry
\* The comparison of _add_new_tab: viewer.file_path == file_path
SamePath(a, b) == a = b

\* Mutant of ViewerHasDoc: _add_new_tab keeps every viewer.
ViewerHasDoc_Always(path) == TRUE

\* _add_new_tab keeps the viewer only if its document was opened.
ViewerHasDoc(path) == ~OpenFails(path)

TabOf(path) == CHOOSE i \in 1..Len(tabs) : SamePath(file_path[tabs[i]], path)

\* MainWindow._add_new_tab(file_path), with PDFViewer.__init__
AddNewTab(path) ==
    /\ UserEvent
    /\ IF \E i \in 1..Len(tabs) : SamePath(file_path[tabs[i]], path)
       THEN /\ current' = tabs[TabOf(path)]
            /\ UNCHANGED <<viewers, tabs, file_path, doc, viewState,
                           page_render_thread, thumbnail_loader,
                           raw_thumbnail_pixmaps, render_timer, fit_timer,
                           queue, ctl, jobs, loads, streams, history, orphans>>
       ELSE IF ~ViewerHasDoc(path)
       THEN UNCHANGED <<viewers, tabs, current, file_path, doc, viewState,
                       page_render_thread, thumbnail_loader,
                       raw_thumbnail_pixmaps, render_timer, fit_timer,
                       queue, ctl, jobs, loads, streams, history, orphans>>
       ELSE /\ viewers < MaxSessions
            /\ LET s == viewers + 1 IN
               /\ viewers' = s
               /\ file_path' = [file_path EXCEPT ![s] = path]
               /\ doc' = [doc EXCEPT ![s] =
                             IF OpenFails(path) THEN "none" ELSE "open"]
               /\ tabs' = Append(tabs, s)
               /\ current' = s
               /\ UNCHANGED viewState
               /\ RefreshThumbnails(s)
               /\ fit_timer' = [fit_timer EXCEPT ![s] = TRUE]
               /\ UNCHANGED <<page_render_thread, render_timer, queue, jobs, loads,
                              history>>
    /\ last' = [op |-> "add_new_tab", s |-> 0, job |-> 0, path |-> path,
                arg |-> 0]
    /\ UNCHANGED <<searchVars, turns>>

RemoveAt(seq, i) == SubSeq(seq, 1, i - 1) \o SubSeq(seq, i + 1, Len(seq))

\* QTabWidget.removeTab: when the current tab is removed the tab to its right
\* becomes current, or the one to its left when it was the last.
CurrentAfterRemove(i) ==
    IF current # tabs[i] THEN current
    ELSE IF i < Len(tabs) THEN tabs[i + 1]
    ELSE IF i > 1 THEN tabs[i - 1]
    ELSE 0

IndexOf(s) == CHOOSE i \in 1..Len(tabs) : tabs[i] = s

\* MainWindow._update_ui_for_current_tab: without a viewer the search input
\* and label are cleared; a text that changes restarts the search timer.
UpdateUiForCurrentTab(viewer) ==
    IF viewer = 0
    THEN /\ search_input' = ""
         /\ search_timer' = (search_timer \/ search_input # "")
         /\ search_results_label' = NoLabel
    ELSE UNCHANGED chrome

\* The end of PDFViewer.close and of _close_tab: doc.close(), removeTab.
CloseFinish(s) ==
    /\ doc' = [doc EXCEPT ![s] = "closed"]
    /\ tabs' = RemoveAt(tabs, IndexOf(s))
    /\ current' = CurrentAfterRemove(IndexOf(s))
    /\ closed_done' = closed_done \cup {s}
    /\ ctl' = Idle
    /\ UpdateUiForCurrentTab(CurrentAfterRemove(IndexOf(s)))

\* Mutant of CloseJoinsRender: close does not join the render job.
CloseJoinsRender_Never(s) == FALSE

\* PDFViewer.close joins a running render job before it closes the document.
CloseJoinsRender(s) == RenderRunning(page_render_thread[s])

\* Mutant of CloseJoinsLoader: close does not join the thumbnail stream.
CloseJoinsLoader_Never(s) == FALSE

\* PDFViewer.close joins a running thumbnail stream first.
CloseJoinsLoader(s) == LoaderRunning(thumbnail_loader[s])

\* PDFViewer.close from its second if: the render job, then the document.
CloseRender(s) ==
    IF CloseJoinsRender(s)
    THEN /\ page_render_thread' = [page_render_thread EXCEPT ![s].intr = TRUE]
         /\ cancelled' = cancelled \cup {<<s, page_render_thread[s].job>>}
         /\ ctl' = [pc |-> "close_render_wait", s |-> s]
         /\ UNCHANGED <<doc, tabs, current, closed_done, chrome>>
    ELSE /\ CloseFinish(s)
         /\ UNCHANGED <<page_render_thread, cancelled>>

\* MainWindow._close_tab(index), with PDFViewer.close
CloseTab(i) ==
    /\ UserEvent
    /\ i \in 1..Len(tabs)
    /\ LET s == tabs[i] IN
       /\ IF CloseJoinsLoader(s)
          THEN /\ thumbnail_loader' = [thumbnail_loader EXCEPT ![s].intr = TRUE]
               /\ ctl' = [pc |-> "close_thumb_wait", s |-> s]
               /\ UNCHANGED <<page_render_thread, cancelled, doc, tabs, current,
                              closed_done, chrome>>
          ELSE /\ CloseRender(s)
               /\ UNCHANGED thumbnail_loader
       /\ last' = Event("close", s, 0)
       /\ UNCHANGED <<viewers, file_path, viewState, raw_thumbnail_pixmaps,
                      render_timer, fit_timer, queue, jobs, loads, streams, applied,
                      orphans, searchState, highlights, selected_rect, turns>>

\* ------------------------------------------------------------- view events
\* Mutant of ValidPage: display_page has no upper bound on the page number.
ValidPage_NoUpper(page_num, n) == 0 <= page_num

\* display_page: 0 <= page_num < self.page_count()
ValidPage(page_num, n) == 0 <= page_num /\ page_num < n

\* PDFViewer.display_page(page_num) of the current viewer
DisplayPage(s, page_num) ==
    IF doc[s] # "open" \/ ~ValidPage(page_num, page_count(s))
    THEN UNCHANGED <<viewState, render_timer, page_render_thread, jobs, loads, ctl,
                     cancelled, orphans>>
    ELSE IF current_page_index[s] # page_num
    THEN /\ current_page_index' = [current_page_index EXCEPT ![s] = page_num]
         /\ UNCHANGED <<rotation, base_scale, current_zoom_factor,
                        current_render_scale, view_size, pixmap>>
         \* _request_render(immediate=True)
         /\ render_timer' = [render_timer EXCEPT ![s] =
                                TimerAfterRequest(TRUE, @)]
         /\ RenderPage(s)
    ELSE /\ UNCHANGED <<current_page_index, rotation, current_render_scale,
                        view_size, pixmap>>
         /\ FitToPage(s)
         /\ UNCHANGED <<page_render_thread, jobs, loads, ctl, cancelled, orphans>>

\* MainWindow._go_to_page_from_thumbnail(page_num): a click on a thumbnail row
GoToPageFromThumbnail(page_num) ==
    /\ UserEvent
    /\ current # 0
    /\ page_num \in 0..(page_count(current) - 1)
    /\ DisplayPage(current, page_num)
    /\ last' = Event("display_page", current, 0)
    /\ UNCHANGED <<viewers, tabs, current, file_path, doc, thumbnail_loader,
                   raw_thumbnail_pixmaps, fit_timer, queue, streams, applied,
                   closed_done, searchVars, turns>>

\* The page numbers a caller passes to display_page: from one below the first
\* page to the page count of the longest document.
PageNumbers == -1..3

\* PDFViewer.display_page(page_num) called on the current viewer with any
\* page number
DisplayPageCall(page_num) ==
    /\ UserEvent
    /\ current # 0
    /\ DisplayPage(current, page_num)
    /\ last' = EventWith("display_page_call", current, page_num)
    /\ UNCHANGED <<viewers, tabs, current, file_path, doc, thumbnail_loader,
                   raw_thumbnail_pixmaps, fit_timer, queue, streams, applied,
                   closed_done, searchVars, turns>>

\* MainWindow._go_to_prev_page
GoToPrevPage ==
    /\ UserEvent
    /\ current # 0
    /\ IF current_page_index[current] > 0
       THEN DisplayPage(current, current_page_index[current] - 1)
       ELSE UNCHANGED <<viewState, render_timer, page_render_thread, jobs,
                        loads, ctl, cancelled, orphans>>
    /\ last' = Event("prev_page", current, 0)
    /\ UNCHANGED <<viewers, tabs, current, file_path, doc, thumbnail_loader,
                   raw_thumbnail_pixmaps, fit_timer, queue, streams, applied,
                   closed_done, searchVars, turns>>

\* MainWindow._go_to_next_page
GoToNextPage ==
    /\ UserEvent
    /\ current # 0
    /\ IF current_page_index[current] < page_count(current) - 1
       THEN DisplayPage(current, current_page_index[current] + 1)
       ELSE UNCHANGED <<viewState, render_timer, page_render_thread, jobs,
                        loads, ctl, cancelled, orphans>>
    /\ last' = Event("next_page", current, 0)
    /\ UNCHANGED <<viewers, tabs, current, file_path, doc, thumbnail_loader,
                   raw_thumbnail_pixmaps, fit_timer, queue, streams, applied,
                   closed_done, searchVars, turns>>

\* PDFViewer._handle_page_scroll(direction): the wheel is turned at the end
\* of the scroll range, direction 1 for the next page and -1 for the previous
HandlePageScroll(direction) ==
    /\ UserEvent
    /\ current # 0
    /\ LET s == current IN
       IF direction > 0 /\ current_page_index[s] < page_count(s) - 1
       THEN DisplayPage(s, current_page_index[s] + 1)
       ELSE IF direction < 0 /\ current_page_index[s] > 0
       THEN DisplayPage(s, current_page_index[s] - 1)
       ELSE UNCHANGED <<viewState, render_timer, page_render_thread, jobs,
                        loads, ctl, cancelled, orphans>>
    /\ last' = EventWith("page_scroll", current, direction)
    /\ UNCHANGED <<viewers, tabs, current, file_path, doc, thumbnail_loader,
                   raw_thumbnail_pixmaps, fit_timer, queue, streams, applied,
                   closed_done, searchVars, turns>>

\* The texts the user enters in the page input: a number, or a text int()
\* rejects.
PageInputs ==
    {[number |-> TRUE, value |-> v] : v \in 0..4}
        \cup {[number |-> FALSE, value |-> 0]}

\* MainWindow._go_to_page_from_input: page_num = int(text) - 1
GoToPageFromInput(text) ==
    /\ UserEvent
    /\ current # 0
    /\ IF text.number /\ 0 <= text.value - 1
          /\ text.value - 1 < page_count(current)
       THEN DisplayPage(current, text.value - 1)
       ELSE UNCHANGED <<viewState, render_timer, page_render_thread, jobs,
                        loads, ctl, cancelled, orphans>>
    /\ last' = EventWith("page_input", current, text.value)
    /\ UNCHANGED <<viewers, tabs, current, file_path, doc, thumbnail_loader,
                   raw_thumbnail_pixmaps, fit_timer, queue, streams, applied,
                   closed_done, searchVars, turns>>

\* Mutant of SetCurrentRowSelectsPage: selecting the row acts as a click.
SetCurrentRowSelectsPage_Always == TRUE

\* thumbnail_list.setCurrentRow in _update_page_selection: page_selected is
\* emitted from itemClicked only, which setCurrentRow does not emit.
SetCurrentRowSelectsPage == FALSE

\* The user selects another tab: _on_tab_changed refreshes the chrome and the
\* selected thumbnail row (_update_ui_for_current_tab, _update_page_selection).
TabChanged(i) ==
    /\ UserEvent
    /\ i \in 1..Len(tabs)
    /\ tabs[i] # current
    /\ current' = tabs[i]
    /\ UpdateUiForCurrentTab(tabs[i])
    /\ IF SetCurrentRowSelectsPage
       THEN DisplayPage(tabs[i], current_page_index[tabs[i]])
       ELSE UNCHANGED <<viewState, render_timer, page_render_thread, jobs, loads, ctl,
                        cancelled, orphans>>
    /\ last' = Event("tab_changed", tabs[i], 0)
    /\ UNCHANGED <<viewers, tabs, file_path, doc, thumbnail_loader,
                   raw_thumbnail_pixmaps, fit_timer, queue, streams, applied,
                   closed_done, searchState, highlights, selected_rect, turns>>

\* Mutant of Rotated: the sum is not reduced modulo 360.
Rotated_NoWrap(r, angle) == r + angle

\* Mutant of Rotated: the sign of the angle is dropped.
Rotated_Abs(r, angle) == (r + Abs(angle)) % 360

\* PDFViewer.rotate: (self.rotation + angle) % 360
Rotated(r, angle) == (r + angle) % 360

\* MainWindow._rotate_page(angle): PDFViewer.rotate, whose rotation_changed
\* signal runs _refresh_thumbnails
RotatePage(angle) ==
    /\ UserEvent
    /\ current # 0
    /\ LET s == current IN
       /\ rotation' = [rotation EXCEPT ![s] = Rotated(@, angle)]
       /\ UNCHANGED <<current_page_index, current_zoom_factor,
                      current_render_scale, view_size, pixmap>>
       /\ RecalcBase(s)
       /\ UNCHANGED <<file_path, doc>>
       /\ RefreshThumbnails(s)
       /\ turns' = [turns EXCEPT ![s] = @ + angle]
       /\ last' = EventWith("rotate", s, angle)
    /\ UNCHANGED <<viewers, tabs, current, page_render_thread, fit_timer, queue,
                   jobs, loads, history, searchVars>>

\* The limits of set_zoom_factor: max(0.1, min(factor, 15.0))
ZoomMin == <<1, 10>>
ZoomMax == <<15, 1>>

\* Mutant of Clamp: the lower limit is not applied.
Clamp_NoLower(factor) == RMin(factor, ZoomMax)

\* Mutant of Clamp: the upper limit is not applied.
Clamp_NoUpper(factor) == RMax(ZoomMin, factor)

Clamp(factor) == RMax(ZoomMin, RMin(factor, ZoomMax))

\* set_zoom_factor ignores a change of at most 0.01
ZoomDeadband == <<1, 100>>

\* zoom_in and zoom_out multiply and divide by 1.25; a wheel notch by 1.15
ZoomStep == <<5, 4>>
WheelStep == <<23, 20>>

\* PDFViewer.set_zoom_factor(factor)
SetZoomFactor(s, factor) ==
    IF RFarther(Clamp(factor), current_zoom_factor[s], ZoomDeadband)
    THEN /\ current_zoom_factor' =
                [current_zoom_factor EXCEPT ![s] = Clamp(factor)]
         \* _request_render()
         /\ render_timer' = [render_timer EXCEPT ![s] =
                         TimerAfterRequest(FALSE, @)]
    ELSE UNCHANGED <<current_zoom_factor, render_timer>>

zoomFrame == <<viewers, tabs, current, file_path, doc, current_page_index,
               rotation, base_scale, current_render_scale, view_size, pixmap,
               page_render_thread, thumbnail_loader, raw_thumbnail_pixmaps,
               fit_timer, queue, ctl, jobs, loads, streams, history, orphans,
               searchVars, turns>>

\* MainWindow._zoom_in -> PDFViewer.zoom_in
ZoomIn ==
    /\ UserEvent
    /\ current # 0
    /\ SetZoomFactor(current, RMul(current_zoom_factor[current], ZoomStep))
    /\ last' = Event("zoom_in", current, 0)
    /\ UNCHANGED zoomFrame

\* MainWindow._zoom_out -> PDFViewer.zoom_out
ZoomOut ==
    /\ UserEvent
    /\ current # 0
    /\ SetZoomFactor(current, RDiv(current_zoom_factor[current], ZoomStep))
    /\ last' = Event("zoom_out", current, 0)
    /\ UNCHANGED zoomFrame

\* PDFGraphicsView.wheelEvent with Ctrl -> PDFViewer._handle_wheel_zoom(factor),
\* factor 1.15 (up) or 1 / 1.15 (down)
WheelZoom(up) ==
    /\ UserEvent
    /\ current # 0
    /\ SetZoomFactor(current,
           IF up THEN RMul(current_zoom_factor[current], WheelStep)
           ELSE RDiv(current_zoom_factor[current], WheelStep))
    /\ last' = EventWith("wheel_zoom", current, IF up THEN 1 ELSE -1)
    /\ UNCHANGED zoomFrame

\* MainWindow._fit_to_width -> PDFViewer.fit_to_width; the division by a zero
\* base_scale raises and leaves the session as it was
FitToWidthEvent ==
    /\ UserEvent
    /\ current # 0
    /\ LET s == current
           pr == RotatedRect(PageRect(file_path[s], current_page_index[s]),
                             rotation[s])
       IN IF doc[s] # "open" \/ pr[1] = 0 \/ base_scale[s][1] = 0
          THEN UNCHANGED <<current_zoom_factor, render_timer>>
          ELSE SetZoomFactor(s, RDiv(Rat(view_size[s][1], pr[1]), base_scale[s]))
    /\ last' = Event("fit_to_width", current, 0)
    /\ UNCHANGED zoomFrame

\* MainWindow._fit_to_page -> PDFViewer.fit_to_page
FitToPageEvent ==
    /\ UserEvent
    /\ current # 0
    /\ UNCHANGED <<current_page_index, rotation, current_render_scale,
                   view_size, pixmap>>
    /\ FitToPage(current)
    /\ last' = Event("fit_to_page", current, 0)
    /\ UNCHANGED <<viewers, tabs, current, file_path, doc, page_render_thread,
                   thumbnail_loader, raw_thumbnail_pixmaps, fit_timer, queue,
                   ctl, jobs, loads, streams, history, orphans, searchVars, turns>>

\* PDFViewer.resizeEvent: the viewport of the current viewer gets a new size
ResizeEvent(size) ==
    /\ UserEvent
    /\ current # 0
    /\ view_size' = [view_size EXCEPT ![current] = size]
    /\ UNCHANGED <<current_page_index, rotation, current_zoom_factor,
                   current_render_scale, pixmap>>
    /\ RecalcBase(current)
    /\ last' = Event("resize", current, 0)
    /\ UNCHANGED <<viewers, tabs, current, file_path, doc, page_render_thread,
                   thumbnail_loader, raw_thumbnail_pixmaps, fit_timer, queue,
                   ctl, jobs, loads, streams, history, orphans, searchVars, turns>>

\* ------------------------------------------------------------ highlights
\* The view rectangle of a match: rect * self.current_render_scale
ToView(rect, scale) == RectTimes(rect, scale)

\* The indexes of the matches on page page_num, ascending.
RECURSIVE MatchesOnPage(_, _, _)
MatchesOnPage(results, page_num, k) ==
    IF k > Len(results) THEN <<>>
    ELSE (IF results[k].page = page_num THEN <<k>> ELSE <<>>)
         \o MatchesOnPage(results, page_num, k + 1)

\* The items _update_highlights leaves in the scene: none unless the current
\* match is on the displayed page, else one per match on that page, the
\* current match with the brush of the active item.
HighlightsOf(results, index, page_num, scale) ==
    IF results = <<>> \/ index < 0 THEN <<>>
    ELSE IF results[index + 1].page # page_num THEN <<>>
    ELSE LET on == MatchesOnPage(results, page_num, 1)
         IN  [k \in 1..Len(on) |->
                 [match |-> on[k], rect |-> ToView(results[on[k]].rect, scale),
                  active |-> (on[k] = index + 1)]]

\* PDFViewer._update_highlights, reading the fields the handler has assigned
UpdateHighlights(s) ==
    highlights' = [highlights EXCEPT ![s] =
        HighlightsOf(search_results'[s], current_search_index'[s],
                     current_page_index'[s], current_render_scale'[s])]

\* ------------------------------------------------------------------ search
\* Mutant of SearchReset: search_text keeps the previous match list.
SearchReset_Keep(old) == old

\* search_text starts from self.search_results = []
SearchReset(old) == <<>>

\* Mutant of PageMatches: the matches of a page are appended last first.
PageMatches_Reversed(path, text, i) ==
    LET rects == SearchFor(path, i, text)
    IN  [k \in 1..Len(rects) |->
            [page |-> i, rect |-> rects[Len(rects) + 1 - k]]]

\* The inner loop of search_text: the matches of page i as (i, rect), in the
\* order page.search_for returned them.
PageMatches(path, text, i) ==
    LET rects == SearchFor(path, i, text)
    IN  [k \in 1..Len(rects) |-> [page |-> i, rect |-> rects[k]]]

\* The loop of search_text over range(page_count()) from page i on.
RECURSIVE MatchesFrom(_, _, _)
MatchesFrom(path, text, i) ==
    IF i >= PageCount(path) THEN <<>>
    ELSE PageMatches(path, text, i) \o MatchesFrom(path, text, i + 1)

\* Mutant of InRange: index 0 is taken as out of range.
InRange_Positive(index, n) == 0 < index /\ index < n

\* go_to_result: 0 <= index < len(self.search_results)
InRange(index, n) == 0 <= index /\ index < n

\* Mutant of NeedsPageChange: go_to_result changes the page for every match.
NeedsPageChange_Always(page_num, shown) == TRUE

\* Mutant of NeedsPageChange: go_to_result never changes the page.
NeedsPageChange_Never(page_num, shown) == FALSE

\* go_to_result: if page_num != self.current_page_index
NeedsPageChange(page_num, shown) == page_num # shown

\* PDFViewer.go_to_result(index), reading the match list search_text or the
\* caller has left; it constrains the cursor, the view state, the render job,
\* the highlights and the label.
GoToResult(s, index) ==
    LET results == search_results'[s] IN
    IF ~InRange(index, Len(results))
    THEN UNCHANGED <<current_search_index, viewState, render_timer,
                     page_render_thread, jobs, loads, ctl, cancelled, orphans,
                     highlights, search_results_label>>
    ELSE /\ current_search_index' = [current_search_index EXCEPT ![s] = index]
         /\ IF NeedsPageChange(results[index + 1].page, current_page_index[s])
            THEN /\ DisplayPage(s, results[index + 1].page)
                 /\ UNCHANGED highlights
            ELSE /\ UNCHANGED <<viewState, render_timer, page_render_thread,
                               jobs, loads, ctl, cancelled, orphans>>
                 /\ UpdateHighlights(s)
         /\ search_results_label' = <<index + 1, Len(results)>>

\* Mutant of ResetCursor: search_text keeps the previous cursor.
ResetCursor_Keep(index) == index

\* search_text starts from self.current_search_index = -1
ResetCursor(index) == -1

\* PDFViewer.search_text(text)
SearchText(s, text) ==
    IF text = ""
    THEN /\ search_results' = [search_results EXCEPT ![s] = SearchReset(@)]
         /\ current_search_index' = [current_search_index EXCEPT ![s] = ResetCursor(@)]
         /\ UNCHANGED <<viewState, render_timer, page_render_thread, jobs, loads, ctl,
                        cancelled, orphans>>
         /\ UpdateHighlights(s)
         /\ search_results_label' = NoLabel
    ELSE IF doc[s] # "open"
    \* page_count() raises on a closed document, after the two assignments
    THEN /\ search_results' = [search_results EXCEPT ![s] = SearchReset(@)]
         /\ current_search_index' = [current_search_index EXCEPT ![s] = ResetCursor(@)]
         /\ UNCHANGED <<viewState, render_timer, page_render_thread, jobs, loads, ctl,
                        cancelled, orphans, highlights, search_results_label>>
    ELSE /\ search_results' = [search_results EXCEPT ![s] =
                SearchReset(@) \o MatchesFrom(file_path[s], text, 0)]
         /\ IF search_results'[s] # <<>>
            THEN GoToResult(s, 0)
            ELSE /\ current_search_index' =
                        [current_search_index EXCEPT ![s] = ResetCursor(@)]
                 /\ UNCHANGED <<viewState, render_timer, page_render_thread,
                                jobs, loads, ctl, cancelled, orphans, highlights>>
                 /\ search_results_label' = NoLabel

\* The user edits the search input: textChanged restarts the search timer.
SearchTextChanged(text) ==
    /\ UserEvent
    /\ current # 0
    /\ text # search_input
    /\ search_input' = text
    /\ search_timer' = TRUE
    /\ last' = Event("search_text_changed", current, 0)
    /\ UNCHANGED <<viewers, tabs, current, file_path, doc, viewState,
                   page_render_thread, thumbnail_loader, raw_thumbnail_pixmaps,
                   render_timer, fit_timer, queue, ctl, jobs, loads, streams, history,
                   orphans, searchState, highlights, search_results_label,
                   selected_rect, turns>>

\* search_timer.timeout -> MainWindow._trigger_search
SearchTimerFire ==
    /\ Ready
    /\ search_timer
    /\ search_timer' = FALSE
    /\ IF current = 0
       THEN UNCHANGED <<searchState, highlights, search_results_label,
                        viewState, render_timer, page_render_thread, jobs, loads, ctl,
                        cancelled, orphans>>
       ELSE SearchText(current, search_input)
    /\ last' = Event("search", current, 0)
    /\ UNCHANGED <<viewers, tabs, current, file_path, doc, thumbnail_loader,
                   raw_thumbnail_pixmaps, fit_timer, queue, streams, applied,
                   closed_done, search_input, selected_rect, turns, budget>>

\* _go_to_next_result: (current_search_index + 1) % len(search_results)
NextIndex(index, n) == (index + 1) % n
\* Mutant of PrevIndex: previous stops at the first match.
PrevIndex_NoWrap(index, n) == IF index = 0 THEN 0 ELSE index - 1
\* _go_to_prev_result: (current_search_index - 1 + len) % len
PrevIndex(index, n) == (index - 1 + n) % n

\* MainWindow._go_to_next_result / _go_to_prev_result
GoToNeighbourResult(forward) ==
    /\ UserEvent
    /\ current # 0
    /\ LET s == current
           n == Len(search_results[s])
       IN  /\ UNCHANGED search_results
           /\ IF n = 0
              THEN UNCHANGED <<current_search_index, viewState, render_timer,
                               page_render_thread, jobs, loads, ctl, cancelled,
                               orphans, highlights, search_results_label>>
              ELSE GoToResult(s, IF forward
                                 THEN NextIndex(current_search_index[s], n)
                                 ELSE PrevIndex(current_search_index[s], n))
    /\ last' = Event(IF forward THEN "next_result" ELSE "prev_result", current, 0)
    /\ UNCHANGED <<viewers, tabs, current, file_path, doc, thumbnail_loader,
                   raw_thumbnail_pixmaps, fit_timer, queue, streams, applied,
                   closed_done, search_input, search_timer, selected_rect,
                   turns>>

GoToNextResult == GoToNeighbourResult(TRUE)
GoToPrevResult == GoToNeighbourResult(FALSE)

\* The indexes a caller passes to go_to_result: from one below the first
\* match to one past the last of the longest match list.
ResultIndexes == -1..2

\* PDFViewer.go_to_result(index) called on the current viewer with any index
GoToResultCall(index) ==
    /\ UserEvent
    /\ current # 0
    /\ UNCHANGED search_results
    /\ GoToResult(current, index)
    /\ last' = EventWith("go_to_result", current, index)
    /\ UNCHANGED <<viewers, tabs, current, file_path, doc, thumbnail_loader,
                   raw_thumbnail_pixmaps, fit_timer, queue, streams, applied,
                   closed_done, search_input, search_timer, selected_rect,
                   turns>>

\* PDFGraphicsView.mouseReleaseEvent: a selection is emitted when its width
\* and its height, in scene pixels, are greater than this.
MinSelection == 2

\* Mutant of ToDocument: the rotation is not undone.
ToDocument_NoRotation(scene_rect, scale, rot) ==
    [k \in 1..4 |-> RDiv(scene_rect[k], scale)]

\* The document rectangle of a selection: the scene rectangle divided by
\* current_render_scale, then transformed by Matrix(1, 1).prerotate(-rotation)
\* when the page is rotated.
ToDocument(scene_rect, scale, rot) ==
    LET pdf_rect == [k \in 1..4 |-> RDiv(scene_rect[k], scale)]
    IN  IF rot # 0 THEN RectTransform(pdf_rect, -rot) ELSE pdf_rect

\* PDFViewer._on_text_selected(scene_rect) up to the clip rectangle it hands
\* to page.get_text: nothing without a document, nothing when the division
\* by current_render_scale raises ZeroDivisionError.
OnTextSelected(s, scene_rect) ==
    IF doc[s] # "open" \/ current_render_scale[s][1] = 0
    THEN UNCHANGED selected_rect
    ELSE selected_rect' =
             ToDocument(scene_rect, current_render_scale[s], rotation[s])

\* PDFViewer._on_text_selected(scene_rect): the user drags the selection
\* rectangle over the k-th highlight item of the scene; the view emits
\* text_selected for a rectangle wider and higher than MinSelection.
TextSelected(k) ==
    /\ UserEvent
    /\ current # 0
    /\ k \in 1..Len(highlights[current])
    /\ LET scene_rect == highlights[current][k].rect
       IN  /\ RFarther(scene_rect[3], scene_rect[1], Rat(MinSelection, 1))
           /\ RFarther(scene_rect[4], scene_rect[2], Rat(MinSelection, 1))
    /\ OnTextSelected(current, highlights[current][k].rect)
    /\ last' = EventWith("text_selected", current, k)
    /\ UNCHANGED <<viewers, tabs, current, file_path, doc, viewState,
                   page_render_thread, thumbnail_loader, raw_thumbnail_pixmaps,
                   render_timer, fit_timer, queue, ctl, jobs, loads, streams, history,
                   orphans, searchState, highlights, chrome, turns>>

\* Rectangles the user drags in the scene, <<x0, y0, x1, y1>> in pixels.
DragRects ==
    << <<Rat(0, 1), Rat(0, 1), Rat(40, 1), Rat(60, 1)>>,
       <<Rat(10, 1), Rat(20, 1), Rat(110, 1), Rat(220, 1)>> >>

\* PDFViewer._on_text_selected(scene_rect): the user drags the k-th of the
\* rectangles over the page view, which has to be wide and high enough for it.
TextSelectedArea(k) ==
    /\ UserEvent
    /\ current # 0
    /\ k \in 1..Len(DragRects)
    /\ view_size[current][1] > MinSelection
    /\ view_size[current][2] > MinSelection
    /\ RFarther(DragRects[k][3], DragRects[k][1], Rat(MinSelection, 1))
    /\ RFarther(DragRects[k][4], DragRects[k][2], Rat(MinSelection, 1))
    /\ OnTextSelected(current, DragRects[k])
    /\ last' = EventWith("text_selected_area", current, k)
    /\ UNCHANGED <<viewers, tabs, current, file_path, doc, viewState,
                   page_render_thread, thumbnail_loader, raw_thumbnail_pixmaps,
                   render_timer, fit_timer, queue, ctl, jobs, loads, streams,
                   history, orphans, searchState, highlights, chrome, turns>>

\* ------------------------------------------------------------------ timers
\* _render_timer.timeout -> _render_page
RenderTimerFire(s) ==
    /\ Ready
    /\ render_timer[s]
    /\ render_timer' = [render_timer EXCEPT ![s] = FALSE]
    /\ UNCHANGED viewState
    /\ RenderPage(s)
    /\ last' = Event("render_timer", s, 0)
    /\ UNCHANGED <<viewers, tabs, current, file_path, doc, thumbnail_loader,
                   raw_thumbnail_pixmaps, fit_timer, queue, streams, applied,
                   closed_done, searchVars, turns, budget>>

\* QTimer.singleShot(50, viewer.fit_to_page) of _add_new_tab fires
FitTimerFire(s) ==
    /\ Ready
    /\ fit_timer[s]
    /\ fit_timer' = [fit_timer EXCEPT ![s] = FALSE]
    /\ UNCHANGED <<current_page_index, rotation, current_render_scale,
                   view_size, pixmap>>
    /\ FitToPage(s)
    /\ last' = Event("fit_timer", s, 0)
    /\ UNCHANGED <<viewers, tabs, current, file_path, doc, page_render_thread,
                   thumbnail_loader, raw_thumbnail_pixmaps, queue, ctl, jobs, loads,
                   streams, history, orphans, searchVars, turns, budget>>

\* -------------------------------------------- the control thread resumes
\* _render_page after page_render_thread.wait() has returned
ResumeRenderPage ==
    /\ ctl.pc = "render_wait"
    /\ ~RenderRunning(page_render_thread[ctl.s])
    /\ UNCHANGED viewState
    /\ StartJob(ctl.s)
    /\ ctl' = Idle
    /\ UNCHANGED <<viewers, tabs, current, file_path, doc, thumbnail_loader,
                   raw_thumbnail_pixmaps, render_timer, fit_timer, queue,
                   streams, history, searchVars, turns, last, budget>>

\* _refresh_thumbnails after thumbnail_loader.wait() has returned
ResumeRefreshThumbnails ==
    /\ ctl.pc = "thumb_wait"
    /\ ~LoaderRunning(thumbnail_loader[ctl.s])
    /\ UNCHANGED viewState
    /\ StartStream(ctl.s)
    /\ ctl' = Idle
    /\ UNCHANGED <<viewers, tabs, current, file_path, doc, page_render_thread,
                   raw_thumbnail_pixmaps, render_timer, fit_timer, queue, jobs, loads,
                   history, searchVars, turns, last, budget>>

\* close after thumbnail_loader.wait() has returned
ResumeCloseLoader ==
    /\ ctl.pc = "close_thumb_wait"
    /\ ~LoaderRunning(thumbnail_loader[ctl.s])
    /\ CloseRender(ctl.s)
    /\ UNCHANGED <<viewers, file_path, viewState, thumbnail_loader,
                   raw_thumbnail_pixmaps, render_timer, fit_timer, queue, jobs, loads,
                   streams, applied, orphans, searchState, highlights,
                   selected_rect, turns, last, budget>>

\* close after page_render_thread.wait() has returned
ResumeCloseRender ==
    /\ ctl.pc = "close_render_wait"
    /\ ~RenderRunning(page_render_thread[ctl.s])
    /\ CloseFinish(ctl.s)
    /\ UNCHANGED <<viewers, file_path, viewState, page_render_thread,
                   thumbnail_loader, raw_thumbnail_pixmaps, render_timer,
                   fit_timer, queue, jobs, loads, streams, cancelled, applied, orphans,
                   searchState, highlights, selected_rect, turns, last, budget>>

\* ----------------------------------------------------------------- workers
WorkerStep == Event("worker", 0, 0)

workerFrame == <<viewers, tabs, current, file_path, doc, viewState,
                 raw_thumbnail_pixmaps, render_timer, fit_timer, ctl, jobs, loads,
                 streams, history, orphans, searchVars, turns, budget>>

\* Mutant of RenderMayEmit: the job never emits its result.
RenderMayEmit_Never(t) == FALSE

\* PageRenderThread.run emits only if not self.isInterruptionRequested()
RenderMayEmit(t) == ~t.intr

\* PageRenderThread.run: get_pixmap succeeded, the interruption flag is read
RenderRasterOk(s) ==
    /\ page_render_thread[s].st = "run"
    /\ page_render_thread' = [page_render_thread EXCEPT ![s].st =
           IF RenderMayEmit(page_render_thread[s]) THEN "emit" ELSE "ret"]
    /\ last' = WorkerStep
    /\ UNCHANGED <<workerFrame, thumbnail_loader, queue>>

\* PageRenderThread.run: get_pixmap raised, the exception is logged
RenderRasterFail(s) ==
    /\ page_render_thread[s].st = "run"
    /\ page_render_thread' = [page_render_thread EXCEPT ![s].st = "ret"]
    /\ faults' = faults \cup {Fault("raster", s, page_render_thread[s].job)}
    /\ last' = WorkerStep
    /\ UNCHANGED <<viewers, tabs, current, file_path, doc, viewState,
                   raw_thumbnail_pixmaps, render_timer, fit_timer, ctl, jobs,
                   load_fails, streams, history, orphans, searchVars, turns,
                   budget, thumbnail_loader, queue>>

\* Mutant of EmitNeedsControl: the signal is handed over synchronously, the
\* worker waits until the control thread runs the slot.
EmitNeedsControl_Always == TRUE

\* page_ready and thumbnail_ready are emitted in the worker and connected to
\* slots of objects of the control thread: the connection is queued, emit
\* posts the call and returns without waiting for the control thread.
EmitNeedsControl == FALSE

\* PageRenderThread.run: self.page_ready.emit(pixmap, self.scale), queued
RenderEmit(s) ==
    /\ page_render_thread[s].st = "emit"
    /\ EmitNeedsControl => Ready
    /\ queue' = Append(queue, [type |-> "page_ready", s |-> s,
                               job |-> page_render_thread[s].job,
                               page |-> page_render_thread[s].page,
                               rotation |-> page_render_thread[s].rotation,
                               scale |-> page_render_thread[s].scale])
    /\ page_render_thread' = [page_render_thread EXCEPT ![s].st = "ret"]
    /\ last' = WorkerStep
    /\ UNCHANGED <<workerFrame, thumbnail_loader>>

\* PageRenderThread.run returns: the thread is no longer running
RenderReturn(s) ==
    /\ page_render_thread[s].st = "ret"
    /\ page_render_thread' = [page_render_thread EXCEPT ![s].st = "finished"]
    /\ last' = WorkerStep
    /\ UNCHANGED <<workerFrame, thumbnail_loader, queue>>

\* Mutant of LoaderDone: the loop does not read the interruption flag.
LoaderDone_IgnoresFlag(t, n) == t.i >= n

\* ThumbnailLoaderThread.run leaves its loop when range(len(self.doc)) is
\* used up or when isInterruptionRequested() is true at the head of a round.
LoaderDone(t, n) == t.i >= n \/ t.intr

\* ThumbnailLoaderThread.run: the head of the loop over range(len(self.doc))
LoaderLoop(s) ==
    /\ thumbnail_loader[s].st = "loop"
    /\ thumbnail_loader' = [thumbnail_loader EXCEPT ![s].st =
           IF LoaderDone(thumbnail_loader[s], PageCount(file_path[s]))
           THEN "finished" ELSE "page"]
    /\ last' = WorkerStep
    /\ UNCHANGED <<workerFrame, page_render_thread, queue>>

\* ThumbnailLoaderThread.run: page i rasterized, thumbnail_ready emitted
LoaderPageOk(s) ==
    /\ thumbnail_loader[s].st = "page"
    /\ EmitNeedsControl => Ready
    /\ queue' = Append(queue, [type |-> "thumbnail_ready", s |-> s,
                               job |-> thumbnail_loader[s].gen,
                               page |-> thumbnail_loader[s].i,
                               rotation |-> thumbnail_loader[s].rotation,
                               scale |-> <<1, 2>>])
    /\ thumbnail_loader' = [thumbnail_loader EXCEPT ![s].st = "loop", ![s].i = @ + 1]
    /\ last' = WorkerStep
    /\ UNCHANGED <<workerFrame, page_render_thread>>

\* Mutant of AfterPageError: the exception ends the stream.
AfterPageError_Fatal(t) == [t EXCEPT !.st = "finished"]

\* The except clause of ThumbnailLoaderThread.run is inside the loop: the
\* stream goes on with the next page.
AfterPageError(t) == [t EXCEPT !.st = "loop", !.i = @ + 1]

\* ThumbnailLoaderThread.run: page i raised, the exception is logged
LoaderPageFail(s) ==
    /\ thumbnail_loader[s].st = "page"
    /\ thumbnail_loader' = [thumbnail_loader EXCEPT ![s] = AfterPageError(@)]
    /\ last' = WorkerStep
    /\ UNCHANGED <<workerFrame, page_render_thread, queue>>

\* ------------------------------------------------------- result delivery
\* PDFViewer._on_page_ready(pixmap, scale)
OnPageReady(m) ==
    /\ current_render_scale' = [current_render_scale EXCEPT ![m.s] = m.scale]
    /\ pixmap' = [pixmap EXCEPT ![m.s] =
           [job |-> m.job, page |-> m.page, rotation |-> m.rotation,
            scale |-> m.scale]]
    /\ applied' = [applied EXCEPT ![m.s] = Append(@, m.job)]
    /\ UNCHANGED <<searchState, current_page_index>>
    /\ UpdateHighlights(m.s)
    /\ last' = Event("page_ready", m.s, m.job)
    /\ UNCHANGED raw_thumbnail_pixmaps

\* Mutant of ThumbnailViewer: the entry goes to the viewer of the current tab.
ThumbnailViewer_Current(m) == IF current = 0 THEN m.s ELSE current

\* The viewer the slot of thumbnail_ready stores into: the lambda connected in
\* _refresh_thumbnails binds v=viewer, the viewer the stream was started for.
ThumbnailViewer(m) == m.s

\* MainWindow._on_thumbnail_ready(viewer, page_num, pixmap, is_landscape)
OnThumbnailReady(m) ==
    /\ raw_thumbnail_pixmaps' =
           LET v == ThumbnailViewer(m) IN
           IF m.page < Len(raw_thumbnail_pixmaps[v])
           THEN [raw_thumbnail_pixmaps EXCEPT ![v][m.page + 1] =
                    [gen |-> m.job, rotation |-> m.rotation]]
           ELSE raw_thumbnail_pixmaps
    /\ last' = Event("thumbnail_ready", m.s, m.job)
    /\ UNCHANGED <<current_render_scale, pixmap, applied, searchState,
                   current_page_index, highlights>>

\* The event loop delivers the oldest posted signal to its slot.
Deliver ==
    /\ Ready
    /\ queue # <<>>
    /\ queue' = Tail(queue)
    /\ IF Head(queue).type = "page_ready"
       THEN OnPageReady(Head(queue))
       ELSE OnThumbnailReady(Head(queue))
    /\ UNCHANGED <<viewers, tabs, current, file_path, doc, rotation,
                   base_scale, current_zoom_factor, view_size,
                   page_render_thread, thumbnail_loader, render_timer,
                   fit_timer, ctl, jobs, loads, streams, cancelled, orphans,
                   closed_done, chrome, selected_rect, turns, budget>>

\* Steps of the worker threads in which the document engine succeeds.
RenderWorker ==
    \E s \in Sessions : RenderRasterOk(s) \/ RenderEmit(s) \/ RenderReturn(s)

LoaderWorker == \E s \in Sessions : LoaderLoop(s) \/ LoaderPageOk(s)

Worker == RenderWorker \/ LoaderWorker

\* The document engine gets into a state in which the next load_page of a
\* render request raises.
LoadFault ==
    /\ ~load_fails
    /\ load_fails' = TRUE
    /\ UNCHANGED <<viewers, tabs, current, file_path, doc, viewState,
                   page_render_thread, thumbnail_loader, raw_thumbnail_pixmaps,
                   render_timer, fit_timer, queue, ctl, jobs, faults, streams,
                   history, orphans, searchVars, turns, last, budget>>

\* Steps in which the document engine raises inside a worker.
RenderFail == \E s \in Sessions : RenderRasterFail(s)
LoaderFail == \E s \in Sessions : LoaderPageFail(s)

RenderTimer == \E s \in Sessions : RenderTimerFire(s)
FitTimer == \E s \in Sessions : FitTimerFire(s)

\* --------------------------------------------------------- specifications
\* Every specification below runs the whole program (timers, workers, event
\* loop, resumed handlers) under one set of user events.  A step the user
\* events of a specification can never enable is left out of its next-state
\* relation: without a rotation or a second render request no handler waits
\* to replace a job or a stream, and without _add_new_tab no fit timer is
\* pending.

\* Spec: the tab registry from the empty window; the user opens, closes and
\* selects tabs.
TabPaths == {PathB, PathBDot, PathBad}

Next ==
    \/ \E path \in TabPaths : AddNewTab(path)
    \/ \E i \in 1..MaxSessions : CloseTab(i)
    \/ \E i \in 1..MaxSessions : TabChanged(i)
    \/ FitTimer
    \/ RenderTimer
    \/ ResumeCloseLoader
    \/ ResumeCloseRender
    \/ Worker
    \/ Deliver

Spec == Init /\ [][Next]_vars

\* SpecSession: one open session whose first render and thumbnail stream have
\* completed; the user changes page, rotates and closes the tab, and the
\* document engine may fail.
SettledAt(s, path, zoom) ==
    /\ viewers = s
    /\ tabs = <<s>>
    /\ current = s
    /\ file_path = [x \in Sessions |-> IF x = s THEN path ELSE <<>>]
    /\ doc = [x \in Sessions |-> IF x = s THEN "open" ELSE "none"]
    /\ current_page_index = [x \in Sessions |-> 0]
    /\ rotation = [x \in Sessions |-> 0]
    /\ base_scale = [x \in Sessions |-> IF x = s THEN <<2, 1>> ELSE <<1, 1>>]
    /\ current_zoom_factor =
           [x \in Sessions |-> IF x = s THEN zoom ELSE <<1, 1>>]
    /\ current_render_scale =
           [x \in Sessions |-> IF x = s THEN RMul(<<2, 1>>, zoom) ELSE <<1, 1>>]
    /\ view_size = [x \in Sessions |-> DefaultViewSize]
    /\ pixmap = [x \in Sessions |-> IF x = s
           THEN [job |-> 1, page |-> 0, rotation |-> 0,
                 scale |-> RMul(<<2, 1>>, zoom)]
           ELSE NoPixmap]
    /\ page_render_thread = [x \in Sessions |-> IF x = s
           THEN [st |-> "finished", job |-> 1, page |-> 0, rotation |-> 0,
                 scale |-> RMul(<<2, 1>>, zoom), intr |-> FALSE]
           ELSE NoThread]
    /\ thumbnail_loader = [x \in Sessions |-> IF x = s
           THEN [st |-> "finished", gen |-> 1, rotation |-> 0,
                 i |-> PageCount(path), intr |-> FALSE]
           ELSE NoLoader]
    /\ raw_thumbnail_pixmaps = [x \in Sessions |-> IF x = s
           THEN [i \in 1..PageCount(path) |-> [gen |-> 1, rotation |-> 0]]
           ELSE <<>>]
    /\ render_timer = [x \in Sessions |-> FALSE]
    /\ fit_timer = [x \in Sessions |-> FALSE]
    /\ queue = <<>>
    /\ ctl = Idle
    /\ jobs = [x \in Sessions |-> IF x = s THEN 1 ELSE 0]
    /\ NoFaults
    /\ streams = [x \in Sessions |-> IF x = s THEN 1 ELSE 0]
    /\ cancelled = {}
    /\ applied = [x \in Sessions |-> IF x = s THEN <<1>> ELSE <<>>]
    /\ orphans = {}
    /\ closed_done = {}
    /\ SearchIdle
    /\ turns = [x \in Sessions |-> 0]

InitSession ==
    /\ SettledAt(1, PathA, <<1, 1>>)
    /\ last = NoEvent
    /\ budget = MaxSessionEvents

NextSession ==
    \/ \E n \in 0..1 : GoToPageFromThumbnail(n)
    \/ RotatePage(90)
    \/ \E i \in 1..MaxSessions : CloseTab(i)
    \/ RenderTimer
    \/ ResumeRenderPage
    \/ ResumeRefreshThumbnails
    \/ ResumeCloseLoader
    \/ ResumeCloseRender
    \/ Worker
    \/ RenderFail
    \/ LoaderFail
    \/ Deliver

SpecSession == InitSession /\ [][NextSession]_vars

\* SpecJoin: the session and the user of SpecSession with a document engine
\* that returns a result from every call, under the scheduling of the
\* threads: a worker thread that can take a step takes it, and wait() returns
\* once the thread has finished.
NextJoin ==
    \/ \E n \in 0..1 : GoToPageFromThumbnail(n)
    \/ RotatePage(90)
    \/ \E i \in 1..MaxSessions : CloseTab(i)
    \/ RenderTimer
    \/ ResumeRenderPage
    \/ ResumeRefreshThumbnails
    \/ ResumeCloseLoader
    \/ ResumeCloseRender
    \/ Worker
    \/ Deliver

SpecJoin ==
    /\ InitSession
    /\ [][NextJoin]_vars
    /\ WF_vars(Worker)
    /\ WF_vars(ResumeRenderPage \/ ResumeRefreshThumbnails
                   \/ ResumeCloseLoader \/ ResumeCloseRender)

\* SpecView: one settled session; the user zooms and resizes and the
\* document engine rasterises every page it is asked for.  The session
\* starts at zoom 1.0 or at a zoom factor that earlier zoom requests have
\* left it at: 15.0, where thirteen zoom_in calls end, and 0.1, where nine
\* zoom_out calls, a wheel notch down and one more zoom_out end.
ZoomStarts == {<<1, 1>>, ZoomMin, ZoomMax}

InitView ==
    /\ \E zoom \in ZoomStarts : SettledAt(1, PathA, zoom)
    /\ last = NoEvent
    /\ budget = MaxViewEvents

NextView ==
    \/ ZoomIn
    \/ ZoomOut
    \/ \E up \in BOOLEAN : WheelZoom(up)
    \/ FitToWidthEvent
    \/ FitToPageEvent
    \/ \E size \in ViewSizes : ResizeEvent(size)
    \/ RenderTimer
    \/ ResumeRenderPage
    \/ RenderWorker
    \/ Deliver

SpecView == InitView /\ [][NextView]_vars

\* No timer is pending, no worker is running and no signal is posted.
Quiescent ==
    /\ Ready
    /\ queue = <<>>
    /\ \A s \in Sessions :
           /\ ~render_timer[s]
           /\ ~fit_timer[s]
           /\ ~RenderRunning(page_render_thread[s])
           /\ ~LoaderRunning(thumbnail_loader[s])

\* SpecRotate: one settled session on the two-page document; the user rotates
\* the page left and right, each time after the previous rotation has been
\* rendered.
InitRotate ==
    /\ SettledAt(1, PathA, <<1, 1>>)
    /\ last = NoEvent
    /\ budget = MaxRotateEvents

\* action_rotate_right and action_rotate_left: _rotate_page(90), (-90)
RotateRight == Quiescent /\ RotatePage(90)
RotateLeft == Quiescent /\ RotatePage(-90)

NextRotate ==
    \/ RotateRight
    \/ RotateLeft
    \/ RenderTimer
    \/ Worker
    \/ Deliver

SpecRotate == InitRotate /\ [][NextRotate]_vars

\* SpecSearch: two settled sessions, the first on the three-page document
\* after rot / 90 rotations to the right, the second on the two-page document
\* at zoom 0.1; the first tab is selected.  The user searches, steps through
\* the matches, selects the text under a highlight and switches tabs.
Rotations == {0, 90, 180, 270}

FitScale(path, page_num, rot, size) ==
    LET pr == RotatedRect(PageRect(path, page_num), rot)
    IN  RMin(Rat(size[1], pr[1]), Rat(size[2], pr[2]))

SettledPair(rot) ==
    LET path == [x \in Sessions |->
                    IF x = 1 THEN PathC ELSE IF x = 2 THEN PathA ELSE <<>>]
        open == {1, 2}
        rots == [x \in Sessions |-> IF x = 1 THEN rot ELSE 0]
        zoom == [x \in Sessions |-> IF x = 2 THEN ZoomMin ELSE <<1, 1>>]
        base == [x \in Sessions |-> IF x \in open
                    THEN FitScale(path[x], 0, rots[x], DefaultViewSize)
                    ELSE <<1, 1>>]
        done == [x \in Sessions |-> IF x \in open THEN 1 + rots[x] \div 90 ELSE 0]
    IN
    /\ viewers = 2
    /\ tabs = <<1, 2>>
    /\ current = 1
    /\ file_path = path
    /\ doc = [x \in Sessions |-> IF x \in open THEN "open" ELSE "none"]
    /\ current_page_index = [x \in Sessions |-> 0]
    /\ rotation = rots
    /\ base_scale = base
    /\ current_zoom_factor = zoom
    /\ current_render_scale =
           [x \in Sessions |-> IF x \in open THEN RMul(base[x], zoom[x])
                               ELSE <<1, 1>>]
    /\ view_size = [x \in Sessions |-> DefaultViewSize]
    /\ pixmap = [x \in Sessions |-> IF x \in open
           THEN [job |-> done[x], page |-> 0, rotation |-> rots[x],
                 scale |-> RMul(base[x], zoom[x])]
           ELSE NoPixmap]
    /\ page_render_thread = [x \in Sessions |-> IF x \in open
           THEN [st |-> "finished", job |-> done[x], page |-> 0,
                 rotation |-> rots[x], scale |-> RMul(base[x], zoom[x]),
                 intr |-> FALSE]
           ELSE NoThread]
    /\ thumbnail_loader = [x \in Sessions |-> IF x \in open
           THEN [st |-> "finished", gen |-> done[x], rotation |-> rots[x],
                 i |-> PageCount(path[x]), intr |-> FALSE]
           ELSE NoLoader]
    /\ raw_thumbnail_pixmaps = [x \in Sessions |-> IF x \in open
           THEN [i \in 1..PageCount(path[x]) |->
                    [gen |-> done[x], rotation |-> rots[x]]]
           ELSE <<>>]
    /\ render_timer = [x \in Sessions |-> FALSE]
    /\ fit_timer = [x \in Sessions |-> FALSE]
    /\ queue = <<>>
    /\ ctl = Idle
    /\ jobs = done
    /\ NoFaults
    /\ streams = done
    /\ cancelled = {}
    /\ applied = [x \in Sessions |-> [k \in 1..done[x] |-> k]]
    /\ orphans = {}
    /\ closed_done = {}
    /\ SearchIdle
    /\ turns = rots

InitSearch ==
    /\ \E rot \in Rotations : SettledPair(rot)
    /\ last = NoEvent
    /\ budget = MaxSearchEvents

TextSelectedItem ==
    \E s \in Sessions : \E k \in 1..Len(highlights[s]) : TextSelected(k)

NextSearch ==
    \/ \E text \in Queries : SearchTextChanged(text)
    \/ SearchTimerFire
    \/ GoToNextResult
    \/ GoToPrevResult
    \/ \E index \in ResultIndexes : GoToResultCall(index)
    \/ TextSelectedItem
    \/ \E i \in 1..MaxSessions : TabChanged(i)
    \/ ResumeRenderPage
    \/ RenderWorker
    \/ Deliver

SpecSearch == InitSearch /\ [][NextSearch]_vars

\* SpecFault: one settled session; the user changes page and zooms while the
\* document engine may fail to load or to rasterise the page of a render
\* request.
InitFault ==
    /\ SettledAt(1, PathA, <<1, 1>>)
    /\ last = NoEvent
    /\ budget = MaxFaultEvents

NextFault ==
    \/ \E n \in 0..1 : GoToPageFromThumbnail(n)
    \/ ZoomIn
    \/ LoadFault
    \/ RenderTimer
    \/ ResumeRenderPage
    \/ RenderWorker
    \/ RenderFail
    \/ Deliver

SpecFault == InitFault /\ [][NextFault]_vars

\* SpecSelect: the sessions of SpecSearch; the user resizes the window and
\* drags selection rectangles over the page, and the document engine may
\* fail to rasterise.
InitSelect ==
    /\ \E rot \in Rotations : SettledPair(rot)
    /\ last = NoEvent
    /\ budget = MaxSelectEvents

NextSelect ==
    \/ \E size \in ViewSizes : ResizeEvent(size)
    \/ \E k \in 1..Len(DragRects) : TextSelectedArea(k)
    \/ RenderTimer
    \/ ResumeRenderPage
    \/ RenderWorker
    \/ RenderFail
    \/ Deliver

SpecSelect == InitSelect /\ [][NextSelect]_vars

\* SpecBrowse: one settled session on the three-page document, whose first
\* page is narrower than the others; the user turns pages by every control
\* there is, zooms, searches and steps through the matches.
InitBrowse ==
    /\ SettledAt(1, PathC, <<1, 1>>)
    /\ last = NoEvent
    /\ budget = MaxBrowseEvents

NextBrowse ==
    \/ \E n \in 0..2 : GoToPageFromThumbnail(n)
    \/ \E page_num \in PageNumbers : DisplayPageCall(page_num)
    \/ GoToPrevPage
    \/ GoToNextPage
    \/ \E direction \in {-1, 1} : HandlePageScroll(direction)
    \/ \E text \in PageInputs : GoToPageFromInput(text)
    \/ ZoomIn
    \/ \E text \in Queries : SearchTextChanged(text)
    \/ SearchTimerFire
    \/ GoToNextResult
    \/ RenderTimer
    \/ ResumeRenderPage
    \/ RenderWorker
    \/ Deliver

SpecBrowse == InitBrowse /\ [][NextBrowse]_vars

\* SpecSteady: one settled session on the two-page document which stays
\* open; the user changes page, rotates, zooms and resizes, the document
\* engine rasterises every page it is asked for, and timers, workers and the
\* event loop are scheduled fairly: a timer that is pending fires, a thread
\* that can take a step takes it, a posted signal is delivered and wait()
\* returns once the thread has finished.
InitSteady ==
    /\ SettledAt(1, PathA, <<1, 1>>)
    /\ last = NoEvent
    /\ budget = MaxSteadyEvents

NextSteady ==
    \/ \E n \in 0..1 : GoToPageFromThumbnail(n)
    \/ RotatePage(90)
    \/ ZoomIn
    \/ \E size \in ViewSizes : ResizeEvent(size)
    \/ RenderTimer
    \/ ResumeRenderPage
    \/ ResumeRefreshThumbnails
    \/ Worker
    \/ Deliver

SpecSteady ==
    /\ InitSteady
    /\ [][NextSteady]_vars
    /\ WF_vars(RenderTimer)
    /\ WF_vars(ResumeRenderPage \/ ResumeRefreshThumbnails)
    /\ WF_vars(Worker)
    /\ WF_vars(Deliver)

\* ------------------------------------------------------------------ claims
\* Render jobs of viewer s that are running: the one the viewer refers to and
\* any that was replaced while running.
RunningRenderJobs(s) ==
    (IF RenderRunning(page_render_thread[s])
     THEN {page_render_thread[s].job} ELSE {})
    \cup {o.id : o \in {x \in orphans : x.kind = "render" /\ x.s = s}}

\* C1: in every reachable state at most one render job of a session is
\* running; _render_page joins a running previous job before it starts the
\* new one.
C1_OneRenderJob ==
    \A s \in Sessions : Cardinality(RunningRenderJobs(s)) <= 1

\* C1 witness: a job is running that was started after _render_page had
\* interrupted and joined its still running predecessor.
C1_Witness ==
    \E s \in Sessions :
        /\ page_render_thread[s].st = "run"
        /\ <<s, page_render_thread[s].job - 1>> \in cancelled

\* C2: when a job is started while the previous job of the session is still
\* running, the older job's result is never applied: _on_page_ready never
\* runs for a job that was interrupted and replaced by a newer job.
C2_OlderResultNeverApplied ==
    last.op = "page_ready" =>
        ~(<<last.s, last.job>> \in cancelled /\ jobs[last.s] > last.job)

NoDuplicates(seq) ==
    \A i, j \in 1..Len(seq) : i # j => seq[i] # seq[j]

\* C3: a job's result is applied at most once, and never after the control
\* thread has set the job's cancellation flag.
C3_NeverAfterCancel ==
    /\ \A s \in Sessions : NoDuplicates(applied[s])
    /\ last.op = "page_ready" => <<last.s, last.job>> \notin cancelled

\* C4: after close of a session has completed, _on_page_ready never runs for
\* that session again.
C4_NoResultAfterClose ==
    last.op = "page_ready" => last.s \notin closed_done

\* C5: a closed document handle implies that no worker of that session is
\* running.
C5_ClosedImpliesNoWorker ==
    \A s \in Sessions :
        doc[s] = "closed" =>
            /\ ~RenderRunning(page_render_thread[s])
            /\ ~LoaderRunning(thumbnail_loader[s])
            /\ \A o \in orphans : o.s # s

\* C5 witness: close has completed for a session whose render job and
\* thumbnail stream were both running when close was called.
C5_Witness ==
    \E s \in closed_done :
        /\ doc[s] = "closed"
        /\ page_render_thread[s].intr
        /\ thumbnail_loader[s].intr

\* C6: the render-job worker and the thumbnail-stream worker of one session
\* are never both running in the same state.
C6_OneWorkerPerSession ==
    \A s \in Sessions :
        ~(RenderRunning(page_render_thread[s])
          /\ LoaderRunning(thumbnail_loader[s]))

\* C7: every entry stored in a session's thumbnail array was emitted by that
\* session's latest thumbnail stream.
C7_EntriesFromLatestStream ==
    \A s \in Sessions :
        \A i \in 1..Len(raw_thumbnail_pixmaps[s]) :
            raw_thumbnail_pixmaps[s][i] # NoEntry =>
                raw_thumbnail_pixmaps[s][i].gen = streams[s]

\* os.path.normpath on the components of a path: "." components are dropped.
IsNotDot(c) == c # "."
Normalize(path) == SelectSeq(path, IsNotDot)

\* C8: the registry holds at most one tab per normalized file path.
C8_OneTabPerNormalizedPath ==
    \A i, j \in 1..Len(tabs) :
        i # j => Normalize(file_path[tabs[i]]) # Normalize(file_path[tabs[j]])

\* C9: an add(path) whose document fails to open changes nothing: no tab, no
\* session, no job, no stream, and every existing session's state is kept.
C9_OpenFailureChangesNothing ==
    [][(budget' = budget - 1 /\ last'.op = "add_new_tab"
        /\ OpenFails(last'.path))
       => UNCHANGED <<viewers, tabs, current, file_path, doc, viewState,
                      page_render_thread, thumbnail_loader,
                      raw_thumbnail_pixmaps, render_timer, fit_timer, queue,
                      ctl, jobs, streams, history, orphans, searchVars,
                      turns>>]_vars

\* C9 witness: add of a path that fails to open was handled while a tab was
\* open.
C9_Witness ==
    /\ last.op = "add_new_tab"
    /\ OpenFails(last.path)
    /\ tabs # <<>>

\* C10: in every reachable state of a session zoom_factor lies in
\* [0.1, 15.0].
C10_ZoomInRange ==
    \A s \in Sessions :
        /\ RLe(ZoomMin, current_zoom_factor[s])
        /\ RLe(current_zoom_factor[s], ZoomMax)

\* C10 witness: a zoom request was handled that asked for a factor beyond a
\* limit and was clamped to it.
C10_Witness ==
    /\ last.op \in {"zoom_in", "wheel_zoom", "fit_to_width"}
    /\ current_zoom_factor[last.s] = ZoomMax
    /\ render_timer[last.s]

\* The multiplier of the zoom request recorded in event e.
ZoomRequestFactor(e) ==
    IF e.op = "zoom_in" THEN <<5, 4>>
    ELSE IF e.op = "zoom_out" THEN <<4, 5>>
    ELSE IF e.arg = 1 THEN <<23, 20>> ELSE <<20, 23>>

\* clamp(x, 0.1, 15.0) as the claim states it
ClampTo(x, lo, hi) == IF RLe(x, lo) THEN lo ELSE IF RLe(hi, x) THEN hi ELSE x

\* The step is the handling of a zoom_in, zoom_out or wheel zoom of viewer s.
IsZoomRequest(s) ==
    /\ budget' = budget - 1
    /\ last'.s = s
    /\ last'.op \in {"zoom_in", "zoom_out", "wheel_zoom"}

\* C11 as stated: after a zoom request with multiplier f at zoom_factor z the
\* zoom_factor is clamp(z * f, 0.1, 15.0).
C11_ZoomRequestClamps ==
    [][\A s \in Sessions :
          IsZoomRequest(s) =>
              current_zoom_factor'[s] =
                  ClampTo(RMul(current_zoom_factor[s], ZoomRequestFactor(last')),
                          <<1, 10>>, <<15, 1>>)]_vars

\* C11 amended: after a zoom request with multiplier f at zoom_factor z the
\* zoom_factor is clamp(z * f, 0.1, 15.0) when that differs from z by more
\* than 0.01, and z otherwise.
C11_ZoomRequestDeadband ==
    [][\A s \in Sessions :
          IsZoomRequest(s) =>
              LET z == current_zoom_factor[s]
                  want == ClampTo(RMul(z, ZoomRequestFactor(last')),
                                  <<1, 10>>, <<15, 1>>)
              IN  current_zoom_factor'[s] =
                      IF RFarther(want, z, <<1, 100>>) THEN want ELSE z]_vars

\* C11 witness: from 0.1 a zoom_in and a wheel notch down end at 0.1087; the
\* zoom_out that follows asks for 0.1, within 0.01, and is ignored.
C11_Witness ==
    /\ last.op = "zoom_out"
    /\ current_zoom_factor[last.s] = <<5, 46>>
    /\ budget = MaxViewEvents - 3

\* C12: in every reachable state the rotation of a session is one of 0, 90,
\* 180, 270.
C12_RotationRightAngle ==
    \A s \in Sessions : rotation[s] \in {0, 90, 180, 270}

\* C12 witness: rotate(-90) was handled at rotation 0 and left 270.
C12_Witness ==
    /\ last.op = "rotate"
    /\ last.arg = -90
    /\ turns[last.s] = -90
    /\ rotation[last.s] = 270

\* C13: rotation depends only on the sum of the angles modulo 360, so four
\* rotate(+90) restore it and rotate(+90), rotate(-90) is the identity; the
\* same holds of the rotation the code would compute next.
C13_RotationCyclic ==
    \A s \in Sessions :
        /\ rotation[s] = turns[s] % 360
        /\ Rotated(Rotated(Rotated(Rotated(rotation[s], 90), 90), 90), 90)
               = rotation[s]
        /\ Rotated(Rotated(rotation[s], 90), -90) = rotation[s]

\* C13 witness: four rotate(+90) have been handled and rotation is 0 again.
C13_Witness ==
    /\ last.op = "rotate"
    /\ turns[last.s] = 360
    /\ rotation[last.s] = 0

\* C14 as stated: in every reachable state of a session render_scale equals
\* base_scale * zoom_factor.
C14_RenderScaleIsProduct ==
    \A s \in Sessions :
        doc[s] = "open" =>
            current_render_scale[s] =
                RMul(base_scale[s], current_zoom_factor[s])

\* C14 amended: render_scale is the scale of the render result applied last;
\* a job is started with base_scale * zoom_factor as they are at its start,
\* and render_scale changes only when a render result is applied.
C14_RenderScaleOfAppliedJob ==
    /\ [](\A s \in Sessions :
             pixmap[s] # NoPixmap => current_render_scale[s] = pixmap[s].scale)
    /\ [][\A s \in Sessions :
             /\ jobs'[s] # jobs[s] =>
                    page_render_thread'[s].scale =
                        RMul(base_scale'[s], current_zoom_factor'[s])
             /\ current_render_scale'[s] # current_render_scale[s] =>
                    (last'.op = "page_ready" /\ last'.s = s)]_vars

\* C14 witness: the zoom has changed and the job rendering at the new scale
\* is running while render_scale is still that of the page on display.
C14_Witness ==
    \E s \in Sessions :
        /\ RenderRunning(page_render_thread[s])
        /\ page_render_thread[s].scale =
               RMul(base_scale[s], current_zoom_factor[s])
        /\ current_render_scale[s] # page_render_thread[s].scale
        /\ current_render_scale[s] = pixmap[s].scale

\* C15: selecting exactly the view rectangle of a highlighted match yields
\* the match's document rectangle: the mapping to the view followed by the
\* mapping back, at the session's render_scale and rotation, is the identity.
C15_RoundTrip ==
    (last.op = "text_selected" /\ selected_rect # NoRect) =>
        LET h == highlights[last.s][last.arg]
            r == search_results[last.s][h.match].rect
        IN  selected_rect = [k \in 1..4 |-> <<r[k], 1>>]

\* The step is _trigger_search of the current viewer.
IsSearch == search_timer /\ ~search_timer' /\ current # 0

\* C16: a search with an empty query leaves the match list empty, the cursor
\* at -1 and the label empty, starts no render job and changes no view state.
C16_EmptyQueryClears ==
    [][(IsSearch /\ search_input = "") =>
          /\ search_results'[current] = <<>>
          /\ current_search_index'[current] = -1
          /\ search_results_label' = <<0, 0>>
          /\ UNCHANGED <<viewState, page_render_thread, jobs, render_timer,
                         queue, ctl>>]_vars

\* C16 witness: an empty query was searched in a session that an earlier
\* search had taken to another page.
C16_Witness ==
    /\ last.op = "search"
    /\ last.s # 0
    /\ search_input = ""
    /\ current_page_index[last.s] # 0
    /\ search_results[last.s] = <<>>

\* The rectangles of the matches on page page_num, in list order.
RectsOnPage(results, page_num) ==
    LET on == MatchesOnPage(results, page_num, 1)
    IN  [k \in 1..Len(on) |-> results[on[k]].rect]

\* C17: after a search the match list holds exactly the matches of the query:
\* pages ascending and, for each page, the engine's rectangles in the
\* engine's order.
C17_MatchListOfQuery ==
    (last.op = "search" /\ last.s # 0 /\ search_input # "") =>
        LET results == search_results[last.s]
            path == file_path[last.s]
        IN  /\ \A k \in 1..(Len(results) - 1) :
                   results[k].page <= results[k + 1].page
            /\ \A k \in 1..Len(results) :
                   results[k].page \in 0..(PageCount(path) - 1)
            /\ \A i \in 0..(PageCount(path) - 1) :
                   RectsOnPage(results, i) = SearchFor(path, i, search_input)

\* C17 witness: a second search in the three-page document found one match on
\* page 0 and one on page 2.
C17_Witness ==
    /\ last.op = "search"
    /\ last.s # 0
    /\ budget <= MaxSearchEvents - 2
    /\ Len(search_results[last.s]) = 2
    /\ search_results[last.s][1].page = 0
    /\ search_results[last.s][2].page = 2

\* C18: after a search with a non-empty query that has a match, the cursor is
\* 0 and the displayed page index is the page of match 0.
C18_FirstMatchShown ==
    (last.op = "search" /\ last.s # 0 /\ search_input # ""
     /\ search_results[last.s] # <<>>) =>
        /\ current_search_index[last.s] = 0
        /\ current_page_index[last.s] = search_results[last.s][1].page

\* C18 witness: a search moved the session from page 0 to the page of its
\* first match.
C18_Witness ==
    /\ last.op = "search"
    /\ last.s # 0
    /\ search_results[last.s] # <<>>
    /\ search_results[last.s][1].page # 0
    /\ current_page_index[last.s] = search_results[last.s][1].page

\* C19: next sets the cursor to (cursor + 1) mod n and previous to
\* (cursor - 1) mod n; on an empty list both change nothing.
C19_CyclicNavigation ==
    [][\A s \in Sessions :
          (budget' = budget - 1 /\ last'.s = s
           /\ last'.op \in {"next_result", "prev_result"}) =>
              LET n == Len(search_results[s])
                  c == current_search_index[s]
              IN  IF n = 0
                  THEN UNCHANGED <<searchState, highlights, viewState,
                                   search_results_label>>
                  ELSE /\ current_search_index'[s] =
                              IF last'.op = "next_result"
                              THEN (c + 1) % n ELSE (c - 1) % n
                       /\ UNCHANGED search_results]_vars

\* C19 witness: previous was handled at the first of several matches and the
\* cursor wrapped to the last.
C19_Witness ==
    /\ last.op = "prev_result"
    /\ Len(search_results[last.s]) = 2
    /\ current_search_index[last.s] = 1
    /\ search_results_label = <<2, 2>>
    /\ budget = MaxSearchEvents - 2

\* C20: switching the active tab changes no session's match list, cursor,
\* zoom factor, rotation or page index.
C20_TabSwitchKeepsSessions ==
    [][(budget' = budget - 1 /\ last'.op = "tab_changed") =>
          UNCHANGED <<search_results, current_search_index,
                      current_zoom_factor, rotation, current_page_index>>]_vars

\* C20 witness: the tab was switched away from a session that holds matches,
\* to a session whose zoom factor is not 1.0.
C20_Witness ==
    /\ last.op = "tab_changed"
    /\ current_zoom_factor[last.s] # <<1, 1>>
    /\ \E s \in Sessions : s # last.s /\ search_results[s] # <<>>

\* C21: in every reachable state of an open session the thumbnail array has
\* one entry per page of the document, also after the reset of a rotation and
\* after an entry, late or not, has been stored.
C21_ThumbnailArrayLength ==
    \A s \in Sessions :
        doc[s] = "open" =>
            Len(raw_thumbnail_pixmaps[s]) = PageCount(file_path[s])

\* C21 witness: after a rotation has reset the array, an entry emitted by a
\* replaced stream was stored.
C21_Witness ==
    /\ last.op = "thumbnail_ready"
    /\ doc[last.s] = "open"
    /\ last.job < streams[last.s]
    /\ \E i \in 1..Len(raw_thumbnail_pixmaps[last.s]) :
           raw_thumbnail_pixmaps[last.s][i].gen = last.job

\* The step is a render request of viewer s made by the debounce timer.
IsTimerRender(s) ==
    /\ render_timer[s]
    /\ ~render_timer'[s]
    /\ last'.op = "render_timer"
    /\ last'.s = s

\* C22: when the engine fails to load or to rasterise the page of a render
\* request, no result of that request is posted or applied, render_scale and
\* the bitmap on display stay as they were, the failure is caught inside the
\* job (the job returns, no handler of the control thread is cut short), and
\* a later render request of the session still starts a job.
C22_RenderFailureContained ==
    /\ [](\A f \in faults :
             /\ \A k \in 1..Len(queue) :
                    ~(/\ queue[k].type = "page_ready"
                      /\ queue[k].s = f.s
                      /\ queue[k].job = f.job)
             /\ ~(last.op = "page_ready" /\ last.s = f.s /\ last.job = f.job))
    /\ [][faults' # faults =>
             /\ UNCHANGED <<current_render_scale, pixmap, queue>>
             /\ \E s \in Sessions :
                    /\ page_render_thread[s].st = "run"
                    /\ page_render_thread'[s].st = "ret"
             /\ UNCHANGED <<ctl, budget, render_timer>>]_vars
    /\ [][\A s \in Sessions :
             (IsTimerRender(s) /\ doc[s] = "open" /\ ~load_fails) =>
                 \/ jobs'[s] = jobs[s] + 1
                 \/ ctl'.pc = "render_wait"]_vars

\* C23: a render requested while base_scale * zoom_factor is zero is skipped:
\* no render job exists with scale zero and no result with scale zero is
\* posted to the control thread.
C23_ZeroScaleRenderSkipped ==
    /\ \A s \in Sessions :
           page_render_thread[s] # NoThread =>
               page_render_thread[s].scale # <<0, 1>>
    /\ \A k \in 1..Len(queue) :
           queue[k].type = "page_ready" => queue[k].scale # <<0, 1>>

\* The view state, match list and thumbnail array of session s.
SessionState(s) ==
    <<current_page_index[s], rotation[s], base_scale[s],
      current_zoom_factor[s], current_render_scale[s], view_size[s], pixmap[s],
      search_results[s], current_search_index[s], raw_thumbnail_pixmaps[s]>>

\* C24: a step changes the view state, match list and thumbnail array of at
\* most one session: a user event those of the viewer of the current tab, a
\* delivered worker result those of the viewer whose worker emitted it; a
\* thumbnail entry is stored in the array of the emitting viewer also when
\* another tab is current.
C24_SessionsIndependent ==
    [][/\ \A a, b \in Sessions :
              (a # b /\ SessionState(a)' # SessionState(a)) =>
                  SessionState(b)' = SessionState(b)
       /\ budget' # budget =>
              \A b \in Sessions :
                  b # current' => SessionState(b)' = SessionState(b)
       /\ (queue # <<>> /\ queue' = Tail(queue)) =>
              LET m == Head(queue) IN
              /\ \A b \in Sessions :
                     b # m.s => SessionState(b)' = SessionState(b)
              /\ (m.type = "thumbnail_ready"
                  /\ m.page < Len(raw_thumbnail_pixmaps[m.s])) =>
                     raw_thumbnail_pixmaps'[m.s][m.page + 1].gen = m.job]_vars

\* C24 witness: an entry of a viewer's stream was stored in that viewer's
\* array while the tab of another viewer was current.
C24_Witness ==
    /\ last.op = "thumbnail_ready"
    /\ current # 0
    /\ current # last.s
    /\ \E i \in 1..Len(raw_thumbnail_pixmaps[last.s]) :
           raw_thumbnail_pixmaps[last.s][i].gen = last.job

\* The step is close of viewer s signalling its thumbnail stream to stop.
ClosesLoader(s) ==
    /\ ctl'.pc = "close_thumb_wait"
    /\ ctl'.s = s
    /\ ~thumbnail_loader[s].intr
    /\ thumbnail_loader'[s].intr

\* The step is close of viewer s signalling its render job to stop.
ClosesRender(s) ==
    /\ ctl'.pc = "close_render_wait"
    /\ ctl'.s = s
    /\ ~page_render_thread[s].intr
    /\ page_render_thread'[s].intr

\* The step is close of viewer s releasing the document handle.
ClosesDoc(s) == doc[s] = "open" /\ doc'[s] = "closed"

\* C25 as stated: close signals the thumbnail stream to stop only after the
\* render job has stopped, and releases the document after both have stopped.
C25_CloseRenderThenStream ==
    [][\A s \in Sessions :
          /\ ClosesLoader(s) => ~RenderRunning(page_render_thread[s])
          /\ ClosesDoc(s) =>
                 /\ ~RenderRunning(page_render_thread[s])
                 /\ ~LoaderRunning(thumbnail_loader[s])]_vars

\* C25 amended: close signals the render job to stop only after the thumbnail
\* stream has stopped, and releases the document after both have stopped.
C25_CloseStreamThenRender ==
    [][\A s \in Sessions :
          /\ ClosesRender(s) => ~LoaderRunning(thumbnail_loader[s])
          /\ ClosesDoc(s) =>
                 /\ ~RenderRunning(page_render_thread[s])
                 /\ ~LoaderRunning(thumbnail_loader[s])]_vars

\* C25 witness: close is waiting for the render job after it has signalled
\* and joined the thumbnail stream.
C25_Witness ==
    /\ ctl.pc = "close_render_wait"
    /\ page_render_thread[ctl.s].intr
    /\ RenderRunning(page_render_thread[ctl.s])
    /\ thumbnail_loader[ctl.s].intr
    /\ thumbnail_loader[ctl.s].st = "finished"

\* Thumbnail streams of viewer s that are running: the one the viewer refers
\* to and any that was replaced while running.
RunningStreams(s) ==
    (IF LoaderRunning(thumbnail_loader[s])
     THEN {thumbnail_loader[s].gen} ELSE {})
    \cup {o.id : o \in {x \in orphans : x.kind = "loader" /\ x.s = s}}

\* C26: in every reachable state at most one thumbnail stream of a session is
\* running; a restart joins the running stream before it starts the new one.
C26_OneThumbnailStream ==
    /\ \A s \in Sessions : Cardinality(RunningStreams(s)) <= 1
    /\ \A s \in Sessions :
           LoaderRunning(thumbnail_loader[s]) =>
               thumbnail_loader[s].gen = streams[s]

\* C26 witness: a restart has signalled the running stream, which has
\* stopped before the end of the document, and the new stream is not yet
\* started.
C26_Witness ==
    /\ ctl.pc = "thumb_wait"
    /\ thumbnail_loader[ctl.s].intr
    /\ thumbnail_loader[ctl.s].st = "finished"
    /\ thumbnail_loader[ctl.s].i < PageCount(file_path[ctl.s])

\* A document rectangle on a page of size <<w, h>> turned forward by rot, as
\* the renderer turns the page: Matrix(scale, scale).prerotate(rot) takes
\* (x, y) to (-y, x) for 90, (-x, -y) for 180 and (y, -x) for 270, and the
\* bitmap's origin is the top left corner of the turned page.
RotateForward(rect, rot, size) ==
    IF rot = 90
    THEN <<size[2] - rect[4], rect[1], size[2] - rect[2], rect[3]>>
    ELSE IF rot = 180
    THEN <<size[1] - rect[3], size[2] - rect[4],
           size[1] - rect[1], size[2] - rect[2]>>
    ELSE IF rot = 270
    THEN <<rect[2], size[1] - rect[3], rect[4], size[1] - rect[1]>>
    ELSE rect

\* C27: whenever the highlights of a session are recomputed, the view
\* rectangle of each is the match's document rectangle turned forward by the
\* session's rotation and then multiplied by render_scale.
C27_HighlightRotatedThenScaled ==
    [][\A s \in Sessions :
          highlights'[s] # highlights[s] =>
              \A k \in 1..Len(highlights'[s]) :
                  LET h == highlights'[s][k]
                      m == search_results'[s][h.match]
                  IN  h.rect =
                          RectTimes(RotateForward(m.rect, rotation'[s],
                                        PageRect(file_path[s], m.page)),
                                    current_render_scale'[s])]_vars

\* The rectangle q turned back by rot about the origin: the inverse of the
\* rotation by 90 takes (x, y) to (y, -x), of 180 to (-x, -y), of 270 to
\* (-y, x).
RotateBack(q, rot) ==
    IF rot = 90 THEN <<q[2], RNeg(q[3]), q[4], RNeg(q[1])>>
    ELSE IF rot = 180 THEN <<RNeg(q[3]), RNeg(q[4]), RNeg(q[1]), RNeg(q[2])>>
    ELSE IF rot = 270 THEN <<RNeg(q[4]), q[1], RNeg(q[2]), q[3]>>
    ELSE q

\* C28: a selection handled while render_scale is zero extracts nothing and
\* changes no state of the session; with render_scale > 0 the rectangle
\* handed to the text extraction is the selection divided by render_scale and
\* then turned back by the current rotation.
C28_SelectionToDocument ==
    [][(budget' = budget - 1 /\ last'.op = "text_selected_area") =>
          LET s == last'.s
              scale == current_render_scale[s]
              rect == DragRects[last'.arg]
          IN  /\ UNCHANGED <<viewState, searchState, highlights, chrome,
                             raw_thumbnail_pixmaps, page_render_thread, jobs,
                             render_timer, queue, ctl, faults>>
              /\ IF scale = <<0, 1>>
                 THEN UNCHANGED selected_rect
                 ELSE selected_rect' =
                          RotateBack([k \in 1..4 |-> RDiv(rect[k], scale)],
                                     rotation[s])]_vars

\* C28 witness: a selection was handled while render_scale was zero, after the
\* viewport had been resized to nothing and back.
C28_Witness ==
    /\ last.op = "text_selected_area"
    /\ current_render_scale[last.s] = <<0, 1>>
    /\ view_size[last.s] # <<0, 0>>
    /\ selected_rect = NoRect

\* C29: go_to_result(index) with index < 0 or index >= len(matches) changes
\* neither the cursor nor the page index and starts no render job; with an
\* index in range it sets the cursor to index.
C29_GoToBoundsChecked ==
    [][(budget' = budget - 1 /\ last'.op = "go_to_result") =>
          LET s == last'.s
              index == last'.arg
          IN  IF index < 0 \/ index >= Len(search_results[s])
              THEN UNCHANGED <<current_search_index, current_page_index, jobs,
                               page_render_thread, render_timer, ctl>>
              ELSE current_search_index'[s] = index]_vars

\* C29 witness: go_to_result was called with the index one past the last
\* match of a non-empty list and the cursor is still in range.
C29_Witness ==
    /\ last.op = "go_to_result"
    /\ search_results[last.s] # <<>>
    /\ last.arg = Len(search_results[last.s])
    /\ current_search_index[last.s] \in 0..(last.arg - 1)

\* The step is go_to_result of viewer s with an index in range, called
\* directly or by next and previous.
IsGoToInRange(s) ==
    /\ budget' = budget - 1
    /\ last'.s = s
    /\ \/ /\ last'.op = "go_to_result"
          /\ 0 <= last'.arg
          /\ last'.arg < Len(search_results[s])
       \/ /\ last'.op \in {"next_result", "prev_result"}
          /\ search_results[s] # <<>>

\* C30: go_to_result with an index in range starts a render job exactly when
\* the match's page is not the current page: then the page index becomes the
\* match's page and the render is started at once (after the join of a job
\* that is running); else page index, zoom factor and base scale are kept and
\* no render job is started or scheduled.
C30_GoToRendersOnPageChange ==
    [][\A s \in Sessions :
          IsGoToInRange(s) =>
              LET page == search_results[s][current_search_index'[s] + 1].page
              IN  IF page # current_page_index[s]
                  THEN /\ current_page_index'[s] = page
                       /\ ~render_timer'[s]
                       /\ \/ jobs'[s] = jobs[s] + 1
                          \/ ctl' = [pc |-> "render_wait", s |-> s]
                  ELSE UNCHANGED <<current_page_index, current_zoom_factor,
                                   base_scale, jobs, page_render_thread,
                                   render_timer, ctl>>]_vars

\* C30 witness: go_to_result moved the session to the page of another match
\* and the job rendering that page is running.
C30_Witness ==
    /\ last.op = "go_to_result"
    /\ last.arg \in 0..(Len(search_results[last.s]) - 1)
    /\ current_search_index[last.s] = last.arg
    /\ search_results[last.s][last.arg + 1].page = current_page_index[last.s]
    /\ page_render_thread[last.s].st = "run"
    /\ page_render_thread[last.s].page = current_page_index[last.s]
    /\ pixmap[last.s].page # current_page_index[last.s]

\* C31: after every successful render the highlight items are exactly the
\* matches on the displayed page, the cursor match marked active and the
\* others inactive, also when the displayed page is not the cursor match's.
C31_HighlightsOfDisplayedPage ==
    [][\A s \in Sessions :
          applied'[s] # applied[s] =>
              LET on == MatchesOnPage(search_results'[s],
                                      current_page_index'[s], 1)
              IN  /\ Len(highlights'[s]) = Len(on)
                  /\ \A k \in 1..Len(on) :
                         /\ highlights'[s][k].match = on[k]
                         /\ highlights'[s][k].active =
                                (on[k] = current_search_index'[s] + 1)]_vars

\* The step posts a thumbnail entry of viewer s.
EmitsEntry(s) ==
    /\ Len(queue') = Len(queue) + 1
    /\ queue'[Len(queue')].type = "thumbnail_ready"
    /\ queue'[Len(queue')].s = s

\* C32: a thumbnail stream emits its entries in strictly increasing page
\* order, at most one per page, each at the rotation it was started with; it
\* reads the cancellation flag before each page, and once it has read it set
\* it emits nothing more and stops.
C32_ThumbnailStreamOrder ==
    [][\A s \in Sessions :
          LET t == thumbnail_loader[s]
              u == thumbnail_loader'[s]
          IN  /\ u.gen # t.gen => (u.i = 0 /\ u.rotation = rotation'[s])
              /\ u.gen = t.gen => (u.i >= t.i /\ u.rotation = t.rotation)
              /\ EmitsEntry(s) =>
                     LET m == queue'[Len(queue')]
                     IN  /\ t.st = "page"
                         /\ m.job = t.gen
                         /\ m.page = t.i
                         /\ m.rotation = t.rotation
                         /\ u.gen = t.gen
                         /\ u.i = t.i + 1
              /\ (u.st = "page" /\ t.st # "page") =>
                     (t.st = "loop" /\ ~t.intr /\ u.gen = t.gen)
              /\ (t.st = "loop" /\ t.intr /\ u.st # "loop" /\ u.gen = t.gen) =>
                     u.st = "finished"
              /\ (t.st = "finished" /\ u.gen = t.gen) =>
                     (u.st = "finished" /\ ~EmitsEntry(s))]_vars

\* C32 witness: the stream started by a rotation has emitted the entry of
\* page 0 at its rotation, has then read the cancellation flag set and has
\* stopped before page 1.
C32_Witness ==
    \E s \in Sessions :
        /\ thumbnail_loader[s].st = "finished"
        /\ thumbnail_loader[s].intr
        /\ thumbnail_loader[s].gen = 2
        /\ thumbnail_loader[s].i = 1
        /\ thumbnail_loader[s].i < PageCount(file_path[s])
        /\ \/ \E k \in 1..Len(queue) :
                 /\ queue[k].type = "thumbnail_ready"
                 /\ queue[k].job = 2
                 /\ queue[k].page = 0
                 /\ queue[k].rotation = thumbnail_loader[s].rotation
           \/ raw_thumbnail_pixmaps[s][1] =
                  [gen |-> 2, rotation |-> thumbnail_loader[s].rotation]

\* C33: when rasterizing page i fails in a thumbnail stream no entry is
\* emitted for page i, which stays unset, and the stream goes on with page
\* i + 1: unless the stream is cancelled every later page is rasterized and,
\* if that succeeds, gets its entry.
C33_ThumbnailPageErrorSkipped ==
    [][\A s \in Sessions :
          LET t == thumbnail_loader[s]
              u == thumbnail_loader'[s]
              n == PageCount(file_path[s])
          IN  /\ (t.st = "page" /\ u.st # "page" /\ u.gen = t.gen) =>
                     /\ u.st = "loop"
                     /\ u.i = t.i + 1
                     /\ \/ /\ EmitsEntry(s)
                           /\ queue'[Len(queue')].page = t.i
                        \/ UNCHANGED <<queue, raw_thumbnail_pixmaps>>
              /\ (t.st = "loop" /\ u.st # "loop" /\ u.gen = t.gen
                    /\ ~t.intr /\ t.i < n) => u.st = "page"]_vars

\* C33 witness: the stream started by a rotation has run to its end without
\* being cancelled, the entry of page 0 is unset and the entry of page 1 is
\* the one this stream emitted.
C33_Witness ==
    \E s \in Sessions :
        /\ thumbnail_loader[s].st = "finished"
        /\ ~thumbnail_loader[s].intr
        /\ thumbnail_loader[s].gen = 2
        /\ thumbnail_loader[s].i = 2
        /\ queue = <<>>
        /\ raw_thumbnail_pixmaps[s] =
               <<NoEntry, [gen |-> 2, rotation |-> thumbnail_loader[s].rotation]>>

\* The step starts a render job of viewer s, at once or once the job that is
\* running has been joined.
StartsJob(s) ==
    \/ jobs'[s] = jobs[s] + 1
    \/ /\ ctl' = [pc |-> "render_wait", s |-> s]
       /\ jobs'[s] = jobs[s]

\* C34: a render request that is not immediate only arms the session's
\* single-shot timer, so the requests made before the timer fires start one
\* render job when it fires; an immediate request (a page change) stops a
\* pending timer and starts the job at once, and the timer is armed again only
\* by a new request that is not immediate.
C34_Debounce ==
    [][\A s \in Sessions :
          \* a user event that leaves the timer armed has started no job
          /\ (budget' # budget /\ render_timer'[s]) =>
                 /\ current_page_index'[s] = current_page_index[s]
                 /\ jobs'[s] = jobs[s]
                 /\ page_render_thread'[s] = page_render_thread[s]
                 /\ ctl' = ctl
          \* the timer fires: it is no longer pending and one job is started
          /\ (budget' = budget /\ render_timer[s] /\ ~render_timer'[s]) =>
                 StartsJob(s)
          \* a job is started by the timer, by a page change or by the
          \* handler that waited for the previous job, and by nothing else
          /\ jobs'[s] # jobs[s] =>
                 /\ jobs'[s] = jobs[s] + 1
                 /\ \/ render_timer[s] /\ ~render_timer'[s] /\ budget' = budget
                    \/ current_page_index'[s] # current_page_index[s]
                    \/ ctl = [pc |-> "render_wait", s |-> s]
          \* a page change stops the timer and starts the job at once
          /\ current_page_index'[s] # current_page_index[s] =>
                 (~render_timer'[s] /\ StartsJob(s))
          \* only a user event arms the timer
          /\ (~render_timer[s] /\ render_timer'[s]) => budget' = budget - 1]_vars

\* C34 witness: two zoom requests were made while the timer was pending and
\* its one firing has started the one job that renders at the final zoom.
C34_Witness ==
    /\ budget = MaxBrowseEvents - 2
    /\ current_zoom_factor[1] = RMul(ZoomStep, ZoomStep)
    /\ current_page_index[1] = 0
    /\ ~render_timer[1]
    /\ jobs[1] = 2
    /\ page_render_thread[1].scale =
           FinalScale(base_scale[1], current_zoom_factor[1])

\* C35: in every reachable state of a session the search cursor is -1 exactly
\* when the match list is empty, and else 0 <= cursor < len(matches).
C35_CursorInRange ==
    \A s \in Sessions :
        /\ (current_search_index[s] = -1) <=> (search_results[s] = <<>>)
        /\ search_results[s] # <<>> =>
               /\ 0 <= current_search_index[s]
               /\ current_search_index[s] < Len(search_results[s])

\* C35 witness: previous has wrapped the cursor from the first match to the
\* last of a list of two matches.
C35_Witness ==
    /\ last.op = "prev_result"
    /\ Len(search_results[last.s]) = 2
    /\ current_search_index[last.s] = 1
    /\ search_results_label = <<2, 2>>

\* C36: whenever a render job is started base_scale is the scale at which the
\* displayed page, under the current rotation, exactly fits the viewport,
\* min(view_width / page_width, view_height / page_height), also after a page
\* change to a page of other dimensions.
C36_BaseScaleFitsPage ==
    [][\A s \in Sessions :
          jobs'[s] # jobs[s] =>
              base_scale'[s] = FitScale(file_path'[s], current_page_index'[s],
                                        rotation'[s], view_size'[s])]_vars

\* The step is a page-turning handler of viewer s that was given a page
\* outside the document: display_page with a page number out of range, next
\* page at the last page, previous page at the first, by button or by wheel.
IsTurnOutOfRange(s) ==
    /\ budget' = budget - 1
    /\ last'.s = s
    /\ \/ last'.op = "display_page_call" /\ ~(0 <= last'.arg /\ last'.arg < page_count(s))
       \/ last'.op = "page_input" /\ ~(1 <= last'.arg /\ last'.arg <= page_count(s))
       \/ last'.op = "next_page" /\ current_page_index[s] = page_count(s) - 1
       \/ last'.op = "prev_page" /\ current_page_index[s] = 0
       \/ /\ last'.op = "page_scroll"
          /\ \/ last'.arg > 0 /\ current_page_index[s] = page_count(s) - 1
             \/ last'.arg < 0 /\ current_page_index[s] = 0

\* C37: in every reachable state of a session with a document that is open
\* 0 <= page_index < page_count; display_page with a page number out of
\* range, next page at the last page and previous page at the first page
\* leave page_index unchanged and start no render job.
C37_PageIndexInRange ==
    /\ [](\A s \in Sessions :
             doc[s] = "open" =>
                 (0 <= current_page_index[s]
                    /\ current_page_index[s] < page_count(s)))
    /\ [][\A s \in Sessions :
             IsTurnOutOfRange(s) =>
                 /\ current_page_index'[s] = current_page_index[s]
                 /\ jobs'[s] = jobs[s]
                 /\ page_render_thread'[s] = page_render_thread[s]
                 /\ ctl' = ctl]_vars

\* C37 witness: display_page was called with the page count as page number on
\* the session showing its last page, which it still shows.
C37_Witness ==
    /\ last.op = "display_page_call"
    /\ last.arg = page_count(last.s)
    /\ current_page_index[last.s] = page_count(last.s) - 1
    /\ page_render_thread[last.s].page = current_page_index[last.s]

\* The step runs a timer handler of viewer s, _render_page or fit_to_page,
\* which begins by testing self.doc.
TimerHandlerRuns(s) ==
    \/ render_timer[s] /\ ~render_timer'[s] /\ budget' = budget
    \/ fit_timer[s] /\ ~fit_timer'[s]

\* C38: after close of a session has completed no render job is started for
\* it and its released document is not accessed again, even if the render
\* timer or the fit-to-page timer of tab creation was pending at close.
C38_NothingAfterClose ==
    [][\A s \in closed_done :
          /\ jobs'[s] = jobs[s]
          /\ page_render_thread'[s] = page_render_thread[s]
          /\ ~TimerHandlerRuns(s)]_vars

\* C39: cancel-and-join does not deadlock: a worker never waits for the
\* control thread, so whenever the control thread blocks to replace a job,
\* to restart a stream or to close a session, the worker reaches its end and
\* the control thread resumes, every engine call returning.
C39_JoinTerminates ==
    /\ [](\A s \in Sessions :
             /\ RenderRunning(page_render_thread[s]) =>
                    ENABLED (RenderRasterOk(s) \/ RenderEmit(s)
                                \/ RenderReturn(s))
             /\ LoaderRunning(thumbnail_loader[s]) =>
                    ENABLED (LoaderLoop(s) \/ LoaderPageOk(s)))
    /\ (ctl.pc # "idle") ~> (ctl.pc = "idle")

\* C39 witness: the control thread waits to replace a render job whose worker
\* has passed its interruption test and is about to emit its result.
C39_Witness ==
    /\ ctl.pc = "render_wait"
    /\ page_render_thread[ctl.s].st = "emit"
    /\ page_render_thread[ctl.s].intr

\* Viewer s is idle and shows the result of its latest render job, which was
\* rendered for the page, the rotation and the scale the session is at.
ShowsCurrent(s) ==
    /\ ~render_timer[s]
    /\ ~RenderRunning(page_render_thread[s])
    /\ \A k \in 1..Len(queue) :
           ~(queue[k].type = "page_ready" /\ queue[k].s = s)
    /\ applied[s] # <<>>
    /\ applied[s][Len(applied[s])] = jobs[s]
    /\ pixmap[s].job = jobs[s]
    /\ pixmap[s].page = current_page_index[s]
    /\ pixmap[s].rotation = rotation[s]
    /\ pixmap[s].scale = FinalScale(base_scale[s], current_zoom_factor[s])
    /\ current_render_scale[s] =
           FinalScale(base_scale[s], current_zoom_factor[s])

\* C40: once the user events have stopped, with the session open and no
\* rasterization failing, under fair scheduling of timer, workers and result
\* queue the session becomes idle for good and the last result applied is the
\* one rendered for the current page index, rotation and base_scale *
\* zoom_factor: render_scale equals base_scale * zoom_factor and no stale
\* result is the last one applied.
C40_EventuallyCurrent ==
    <>[](/\ Ready
         /\ \A s \in Sessions : doc[s] = "open" => ShowsCurrent(s))

\* C40 witness: the user events are used up, the session has been rotated and
\* is on another page, more than one result was applied after the first and
\* the session shows the result of its latest job.
C40_Witness ==
    /\ budget = 0
    /\ Ready
    /\ rotation[1] = 90
    /\ current_page_index[1] # 0
    /\ Len(applied[1]) >= 3
    /\ doc[1] = "open"
    /\ ShowsCurrent(1)
====
